---------------------------- MODULE Spec2Model ----------------------------
(***************************************************************************)
(* Verification model of crash-python's kernel memory-state readers:       *)
(*   crash/types/kallsyms.py  (Kallsyms, kallsyms_lookup)                  *)
(*   crash/types/page.py      (Page)                                       *)
(*   crash/types/slab.py      (Slab, KmemCache)                            *)
(*                                                                         *)
(* The target memory image is read-only input.  Each family of operations  *)
(* has its own specification (SpecKallsyms, SpecPage, SpecSlab); the       *)
(* variables of the other families stay at their idle value.               *)
(*                                                                         *)
(* Python's None is modelled by the value a field holds before it is first *)
(* assigned (0, "" or the empty function), together with the flag the code *)
(* itself keeps to know whether the field is set.                          *)
(***************************************************************************)
EXTENDS Integers, Sequences, FiniteSets, TLC

VARIABLES
    ktarget,    \* kallsyms.py: the target image as the symbol reader sees it
    Kallsyms,   \* kallsyms.py: class attributes of Kallsyms
    kret,       \* kallsyms.py: outcome of the last kallsyms_lookup call
    ptarget,    \* page.py: the target (architecture, types, page layout)
    Page,       \* page.py: class attributes of Page
    finish_calls, \* page.py: how often setup_pageflags_finish has run (history)
    redelivered, \* page.py: callbacks delivered again after finish (history)
    pret,       \* page.py: outcome of the last page query
    starget,    \* slab.py: what the image holds for the slab under study
    kmem_cache, \* slab.py: the KmemCache instance of the slab
    slab,       \* slab.py: the Slab instance
    findings,   \* slab.py: the lines the last call printed, in order
    sret,       \* slab.py: what the last call on the slab returned
    actarget,   \* slab.py: the array caches of the cache as the image holds them
    ltarget,    \* slab.py: one slab list of a node as the image holds it
    wret,       \* slab.py: what the last check of the slab list did and returned
    ztarget,    \* zone.py: the free areas and pagesets of the zone in the image
    zret,       \* zone.py: how the last check_free_pages call ended
    ctarget,    \* slab.py: the global list of caches in the image
    caches_cache, \* slab.py: the memoized catalog of caches
    scans,      \* how many times the global list of caches has been walked
    cret,       \* slab.py: how the last call of the catalog ended
    mtarget,    \* page.py: the architecture and struct mem_section of the target
    Sections,   \* page.py: the class attributes of Page that pfn_to_section reads
    mret,       \* page.py: what the last pfn_to_section call computed
    ftarget,    \* page.py: enum zone_type, NODES_SHIFT and unsigned long of the target
    Flags,      \* page.py: the class attributes of Page that get_nid and get_zid read
    fret,       \* page.py: what the last get_nid and get_zid of a page returned
    etarget,    \* kallsyms.py: the compressed names and the token tables of the image
    eret,       \* kallsyms.py: what the last _expand_symbol call returned
    free_walk   \* slab.py: where __populate_free stands in its loop, and the steps it has made

kvars == <<ktarget, Kallsyms, kret>>
pvars == <<ptarget, Page, finish_calls, redelivered, pret>>

svars == <<starget, kmem_cache, slab, findings, sret>>

acvars == <<actarget>>

lvars == <<ltarget, wret>>

zvars == <<ztarget, zret>>

cvars == <<ctarget, caches_cache, scans, cret>>

mvars == <<mtarget, Sections, mret>>

fvars == <<ftarget, Flags, fret>>

evars == <<etarget, eret>>

bvars == <<free_walk>>

vars == <<ktarget, Kallsyms, kret, ptarget, Page, finish_calls, redelivered,
          pret, starget, kmem_cache, slab, findings, sret,
          actarget,
          ltarget, wret,
          ztarget, zret,
          ctarget, caches_cache, scans, cret,
          mtarget, Sections, mret,
          ftarget, Flags, fret,
          etarget, eret,
          free_walk>>

---------------------------------------------------------------------------
(* Bounds of the model *)

\* largest number of entries of the kernel symbol table
MaxSyms == 3
\* kallsyms_offsets hold values in -MaxOff .. MaxOff-1
MaxOff == 2

---------------------------------------------------------------------------
(* kallsyms.py                                                             *)

\* first address of the module area in the modelled images
ModLo == 2 * MaxOff + 2

Max(S) == CHOOSE x \in S : \A y \in S : y <= x
Min(S) == CHOOSE x \in S : \A y \in S : x <= y

\* Class attributes before _config_setup has run (all None / False).
KallsymsUnset ==
    [config_setup_done |-> FALSE,
     CONFIG_KALLSYMS_BASE_RELATIVE |-> FALSE,
     CONFIG_KALLSYMS_ABSOLUTE_PERCPU |-> FALSE,
     stext_addr |-> 0, end_addr |-> 0,
     module_addr_min |-> 0, module_addr_max |-> 0,
     kallsyms_num_syms |-> 0,
     kallsyms_relative_base |-> 0,
     kallsyms_offsets |-> << >>]

\* Kallsyms._config_setup: loads the class attributes from the target once.
\* kallsyms_relative_base and kallsyms_offsets are only read under
\* CONFIG_KALLSYMS_BASE_RELATIVE.
config_setup(K, t) ==
    IF K.config_setup_done THEN K
    ELSE [config_setup_done |-> TRUE,
          CONFIG_KALLSYMS_BASE_RELATIVE |-> t.base_relative,
          CONFIG_KALLSYMS_ABSOLUTE_PERCPU |-> t.absolute_percpu,
          stext_addr |-> t.stext, end_addr |-> t.end,
          module_addr_min |-> t.mod_min, module_addr_max |-> t.mod_max,
          kallsyms_num_syms |-> t.num_syms,
          kallsyms_relative_base |->
              IF t.base_relative THEN t.relative_base ELSE 0,
          kallsyms_offsets |->
              IF t.base_relative THEN t.offsets ELSE << >>]

\* a plausible slip: only the first of the two configuration checks is made
sym_address_raises_base_only(K) ==
    ~K.CONFIG_KALLSYMS_BASE_RELATIVE

\* Kallsyms._sym_address raises NotImplementedError for these configurations.
sym_address_raises(K) ==
    \/ ~K.CONFIG_KALLSYMS_BASE_RELATIVE
    \/ ~K.CONFIG_KALLSYMS_ABSOLUTE_PERCPU

\* Kallsyms._sym_address, when it does not raise.
sym_address(K, idx) ==
    LET offset == K.kallsyms_offsets[idx] IN
    IF offset >= 0 THEN offset
    ELSE K.kallsyms_relative_base - 1 - offset

\* a plausible slip in the bisection: '<' for '<='
RECURSIVE bisect_strict(_, _, _, _)
bisect_strict(K, low, high, addr) ==
    IF high - low > 1
    THEN LET mid == low + (high - low) \div 2 IN
         IF sym_address(K, mid) < addr
         THEN bisect_strict(K, mid, high, addr)
         ELSE bisect_strict(K, low, mid, addr)
    ELSE low

\* _get_symbol_pos, the bisection loop
RECURSIVE bisect(_, _, _, _)
bisect(K, low, high, addr) ==
    IF high - low > 1
    THEN LET mid == low + (high - low) \div 2 IN
         IF sym_address(K, mid) <= addr
         THEN bisect(K, mid, high, addr)
         ELSE bisect(K, low, mid, addr)
    ELSE low

\* _get_symbol_pos, the loop that slides left to the first alias
RECURSIVE first_alias(_, _)
first_alias(K, low) ==
    IF low # 0 /\ sym_address(K, low - 1) = sym_address(K, low)
    THEN first_alias(K, low - 1)
    ELSE low

\* a plausible slip in the search for the end: '>=' for '>', so that an
\* alias of the symbol ends it
RECURSIVE symbol_end_alias(_, _, _, _)
symbol_end_alias(K, i, symbol_start, addr) ==
    IF i >= K.kallsyms_num_syms THEN addr
    ELSE IF sym_address(K, i) >= symbol_start THEN sym_address(K, i)
    ELSE symbol_end_alias(K, i + 1, symbol_start, addr)

\* _get_symbol_pos, the search for symbol_end from index i on; addr when
\* no later entry is above symbol_start ("faking it")
RECURSIVE symbol_end(_, _, _, _)
symbol_end(K, i, symbol_start, addr) ==
    IF i >= K.kallsyms_num_syms THEN addr
    ELSE IF sym_address(K, i) > symbol_start THEN sym_address(K, i)
    ELSE symbol_end(K, i + 1, symbol_start, addr)

\* Kallsyms._get_symbol_pos, when _sym_address does not raise.
get_symbol_pos(K, addr) ==
    LET low == first_alias(K, bisect(K, 0, K.kallsyms_num_syms, addr))
        symbol_start == sym_address(K, low)
        end == symbol_end(K, low + 1, symbol_start, addr)
    IN  [pos |-> low, offset |-> addr - symbol_start,
         size |-> end - symbol_start]


\* outcome of a lookup that resolved nothing yet (no call made)
NoKret ==
    [op |-> "none", addr |-> 0, kind |-> "none", pos |-> 0, offset |-> 0,
     size |-> 0, name |-> "", modname |-> ""]

\* a plausible slip in get_ksymbol: nextval takes every start above addr,
\* not only a smaller one
RECURSIVE ksymbol_scan_last(_, _, _, _, _, _)
ksymbol_scan_last(symtab, n, i, best, nextval, addr) ==
    IF i >= n THEN [best |-> best, nextval |-> nextval]
    ELSE IF symtab[i].st_shndx = 0 \/ symtab[i].name = ""
    THEN ksymbol_scan_last(symtab, n, i + 1, best, nextval, addr)
    ELSE LET st_value == symtab[i].st_value
             best_st_value == symtab[best].st_value
             best1 == IF st_value <= addr /\ st_value > best_st_value
                      THEN i ELSE best
             nextval1 == IF st_value > addr THEN st_value ELSE nextval
         IN  ksymbol_scan_last(symtab, n, i + 1, best1, nextval1, addr)

\* Kallsyms.get_ksymbol, the loop over symtab[1 .. num_symtab-1]: entries
\* with st_shndx == 0 (SHN_UNDEF) or an empty name are skipped; best and
\* nextval are updated in place.
RECURSIVE ksymbol_scan(_, _, _, _, _, _)
ksymbol_scan(symtab, n, i, best, nextval, addr) ==
    IF i >= n THEN [best |-> best, nextval |-> nextval]
    ELSE IF symtab[i].st_shndx = 0 \/ symtab[i].name = ""
    THEN ksymbol_scan(symtab, n, i + 1, best, nextval, addr)
    ELSE LET st_value == symtab[i].st_value
             best_st_value == symtab[best].st_value
             best1 == IF st_value <= addr /\ st_value > best_st_value
                      THEN i ELSE best
             nextval1 == IF st_value > addr /\ st_value < nextval
                         THEN st_value ELSE nextval
         IN  ksymbol_scan(symtab, n, i + 1, best1, nextval1, addr)

\* Kallsyms.get_ksymbol: the formatted string is kept as its parts
\* (name, offset, size, modname).
get_ksymbol(mod, addr, nextval, modname) ==
    LET r == ksymbol_scan(mod.symtab, mod.num_symtab, 1, 0, nextval, addr)
        st_value == mod.symtab[r.best].st_value
    IN  IF r.best = 0
        THEN [NoKret EXCEPT !.kind = "unknown symbol [mod]",
                            !.modname = modname]
        ELSE [NoKret EXCEPT !.kind = "module symbol",
                            !.pos = r.best,
                            !.name = mod.symtab[r.best].name,
                            !.offset = addr - st_value,
                            !.size = r.nextval - st_value,
                            !.modname = modname]

\* Kallsyms.module_address_lookup over the modules from index i on: the
\* first module whose init or core segment holds addr answers; kind "None"
\* is the None the function returns when no module holds addr.
RECURSIVE module_address_lookup(_, _, _)
module_address_lookup(mods, i, addr) ==
    IF i > Len(mods) THEN [NoKret EXCEPT !.kind = "None"]
    ELSE LET mod == mods[i]
             init_base == mod.init_layout.base
             init_size == mod.init_layout.size
             core_base == mod.core_layout.base
             core_size == mod.core_layout.size
         IN  IF addr >= init_base /\ addr < init_base + init_size
             THEN get_ksymbol(mod, addr, init_base + init_size, "m(init)")
             ELSE IF addr >= core_base /\ addr < core_base + core_size
             THEN get_ksymbol(mod, addr, core_base + core_size, "m")
             ELSE module_address_lookup(mods, i + 1, addr)

\* kallsyms_lookup after _config_setup, on class state K and target t.
\* The symbol name of a kernel symbol is the expansion of entry pos.
kallsyms_lookup(K, t, addr) ==
    IF addr >= K.stext_addr /\ addr <= K.end_addr
    THEN IF sym_address_raises(K)
         THEN [NoKret EXCEPT !.kind = "NotImplementedError"]
         ELSE LET r == get_symbol_pos(K, addr) IN
              [NoKret EXCEPT !.kind = "symbol", !.pos = r.pos,
                             !.offset = r.offset, !.size = r.size]
    ELSE IF addr >= K.module_addr_min /\ addr <= K.module_addr_max
    THEN LET mod_ksymbol == module_address_lookup(t.modules, 1, addr) IN
         IF mod_ksymbol.kind # "None" THEN mod_ksymbol
         ELSE [NoKret EXCEPT !.kind = "unknown module symbol"]
    ELSE [NoKret EXCEPT !.kind = "unknown symbol"]

\* the symbol reader at rest, for the specifications of the other readers
KallsymsIdle ==
    /\ ktarget = [base_relative |-> TRUE, absolute_percpu |-> TRUE,
                  num_syms |-> 1, relative_base |-> 0,
                  offsets |-> [i \in {0} |-> 0], stext |-> 0, end |-> 0,
                  mod_min |-> 0, mod_max |-> 0, modules |-> << >>]
    /\ Kallsyms = KallsymsUnset
    /\ kret = NoKret

(***************************************************************************)
(* The slab variables while another part of the program is under study.   *)
(***************************************************************************)
NoFinding == [kind |-> "None", a |-> 0, b |-> 0, c |-> 0, d |-> 0]

NoAc == [ac_type |-> "None", nid_src |-> 0, nid_tgt |-> 0]

NoSret == [op |-> "none", kind |-> "none", addr |-> 0, found |-> FALSE,
           obj_addr |-> 0, ac |-> NoAc, num_free |-> 0]

\* a slab of one byte-sized object, never looked at
IdleSlabImage ==
    [page_slab |-> TRUE, objs_per_slab |-> 1, buffer_size |-> 1,
     off_slab |-> FALSE, inuse |-> 0, s_mem |-> 1,
     free |-> 0, bufctl |-> [i \in {0} |-> 0], slabtype |-> 0]

SlabIdle ==
    /\ starget = IdleSlabImage
    /\ kmem_cache = [objs_per_slab |-> 1, buffer_size |-> 1,
                     off_slab |-> FALSE, off_slab_cache |-> "None",
                     array_caches_set |-> FALSE, array_caches |-> << >>]
    /\ slab = [error |-> FALSE, free_set |-> FALSE, free |-> {},
               misplaced_list |-> "None", misplaced_error |-> NoFinding,
               inuse |-> 0, s_mem |-> 1]
    /\ findings = << >>
    /\ sret = NoSret

(***************************************************************************)
(* The array-cache image while another part of the program is under study. *)
(***************************************************************************)
ArrayCachesIdle ==
    actarget = [nids |-> << >>, cpus |-> << >>, numa_node |-> << >>,
                percpu |-> << >>, nodelists |-> << >>, page_nid |-> << >>,
                lookup_fails |-> FALSE]

(***************************************************************************)
(* The slab-list variables while another part of the program is under     *)
(* study.                                                                  *)
(***************************************************************************)
NoWret == [op |-> "none", free |-> 0, slabs |-> 0, walks |-> << >>,
           visited |-> << >>]

WalkIdle ==
    /\ ltarget = [slabs |-> << >>, forward |-> -1, backward |-> -1,
                  slabtype |-> 0]
    /\ wret = NoWret

(***************************************************************************)
(* The zone variables while another part of the program is under study.   *)
(***************************************************************************)
NoZret == [op |-> "none", kind |-> "none", areas_done |-> 0]

ZoneIdle ==
    /\ ztarget = [nid |-> 0, zid |-> 0, BITS_PER_LONG |-> 0,
                  NODES_WIDTH |-> 0, ZONES_WIDTH |-> 0, areas |-> << >>]
    /\ zret = NoZret

(***************************************************************************)
(* The catalog variables while another part of the program is under       *)
(* study.                                                                  *)
(***************************************************************************)
NoCret == [op |-> "none", kind |-> "none", arg |-> 0, value |-> {}]

EmptyCatalog ==
    [populated |-> FALSE, kmem_caches |-> << >>,
     kmem_caches_by_addr |-> << >>]

CatalogIdle ==
    /\ ctarget = [caches |-> << >>, fail |-> -1]
    /\ caches_cache = EmptyCatalog
    /\ scans = 0
    /\ cret = NoCret

(***************************************************************************)
(* The section variables while another part of the program is under       *)
(* study.                                                                  *)
(***************************************************************************)
NoMret == [op |-> "none", pfn |-> 0, section_nr |-> 0, root_idx |-> 0,
           offset |-> 0]

\* page.py, lines 63-71: the class attributes before the callbacks
SectionsUnset ==
    [PAGE_SIZE |-> 4096, PAGE_SHIFT |-> 12, sparsemem_extreme |-> TRUE,
     SECTION_SIZE_BITS |-> 27, SECTIONS_PER_ROOT |-> -1,
     setup_page_type_done |-> FALSE, setup_mem_section_done |-> FALSE]

SectionIdle ==
    /\ mtarget = [arch |-> "none", mem_section_sizeof |-> 0]
    /\ Sections = SectionsUnset
    /\ mret = NoMret

(***************************************************************************)
(* The variables of the flags decoding while another part of the program  *)
(* is under study.                                                         *)
(***************************************************************************)
NoFret == [op |-> "none", flags |-> 0, nid |-> 0, zid |-> 0]

\* page.py, line 58: ZONES_WIDTH before the callbacks; NODES_WIDTH and
\* BITS_PER_LONG are set by setup_nodes_width only
FlagsUnset ==
    [ZONES_WIDTH |-> -1, NODES_WIDTH |-> -1, BITS_PER_LONG |-> -1,
     setup_zone_type_done |-> FALSE, setup_nodes_width_done |-> FALSE]

FlagsIdle ==
    /\ ftarget = [max_nr_zones |-> 0, NODES_SHIFT |-> -1,
                  unsigned_long_sizeof |-> 0]
    /\ Flags = FlagsUnset
    /\ fret = NoFret

\* nothing has been expanded
NoEret == [op |-> "none", off |-> 0, out |-> << >>]

\* kallsyms.py: the name table is not used
ExpandIdle ==
    /\ etarget = [kallsyms_names |-> << >>, kallsyms_token_index |-> << >>,
                  kallsyms_token_table |-> << >>]
    /\ eret = NoEret

\* __populate_free has not been entered
NoFreeWalk == [pc |-> "idle", f |-> 0, i |-> 0, steps |-> 0]

\* slab.py: no free list is being walked
ChainIdle == free_walk = NoFreeWalk

---------------------------------------------------------------------------
(* page.py                                                                 *)
(*                                                                         *)
(* Addresses are scaled to small integers: 64 stands for the default       *)
(* vmemmap_base 0xffffea0000000000, and sizeof(struct page) is 4.          *)
(* directmap_base is never used in arithmetic here and is kept as text.    *)

\* largest frame number of the target (max_pfn)
MaxPfn == 2

RECURSIVE Pow2(_)
Pow2(n) == IF n = 0 THEN 1 ELSE 2 * Pow2(n - 1)

\* Python's a & b for a >= 0 and b >= 0 or b = -1 (all bits set)
RECURSIVE BitAnd(_, _)
BitAnd(a, b) ==
    IF b = -1 THEN a
    ELSE IF a = 0 \/ b = 0 THEN 0
    ELSE (a % 2) * (b % 2) + 2 * BitAnd(a \div 2, b \div 2)

\* Python's a | b for a, b >= 0
RECURSIVE BitOr(_, _)
BitOr(a, b) ==
    IF a = 0 THEN b
    ELSE IF b = 0 THEN a
    ELSE (IF a % 2 = 1 \/ b % 2 = 1 THEN 1 ELSE 0)
         + 2 * BitOr(a \div 2, b \div 2)

\* the page flags that free_pages_check() rejects
PAGE_FLAGS_CHECK_AT_FREE_names ==
    <<"PG_lru", "PG_locked", "PG_private", "PG_private_2", "PG_writeback",
      "PG_reserved", "PG_slab", "PG_active", "PG_unevictable", "PG_mlocked">>

\* Class attributes of Page before any callback has run.
PageUnset ==
    [slab_cache_name |-> "None", slab_page_name |-> "None",
     compound_head_name |-> "None",
     vmemmap_base |-> 64, vmemmap_set |-> FALSE,
     directmap_base |-> "0xffff880000000000",
     pageflags |-> << >>,
     PG_tail |-> -1, PG_slab |-> -1, PG_lru |-> -1, PG_head |-> -1,
     PAGE_FLAGS_CHECK_AT_FREE |-> 0, PAGE_FLAGS_CHECK_AT_PREP |-> 0,
     setup_page_type_done |-> FALSE, setup_pageflags_done |-> FALSE,
     setup_pageflags_finish_done |-> FALSE,
     PAGE_SIZE |-> 4096, PAGE_SHIFT |-> 12,
     sparsemem |-> TRUE, sparsemem_vmemmap |-> TRUE,
     sparsemem_extreme |-> TRUE, SECTION_SIZE_BITS |-> 27,
     is_tail |-> "unset", compound_head |-> "unset",
     raised |-> "no"]

\* crash.util.find_member_variant as used here: the first of the two names
\* that is a member of the type (every modelled struct page has one of them)
find_member_variant(members, variants) ==
    IF variants[1] \in members THEN variants[1] ELSE variants[2]

\* a plausible slip: the head resolution by first_page is chosen only
\* where the two-flag tail test is
setup_pageflags_finish_nested(P) ==
    LET P1 == [P EXCEPT !.setup_pageflags_finish_done = TRUE,
                        !.is_tail = "is_tail_compound_head_bit",
                        !.compound_head = "compound_head_uses_low_bit"]
        P2 == IF "PG_tail" \in DOMAIN P1.pageflags
              THEN [P1 EXCEPT !.PG_tail = Pow2(P1.pageflags["PG_tail"]),
                              !.is_tail = "is_tail_flag"]
              ELSE P1
    IN  IF P2.compound_head_name = "first_page" /\ P2.PG_tail = -1
        THEN IF {"PG_compound", "PG_reclaim"} \subseteq DOMAIN P2.pageflags
             THEN [P2 EXCEPT
                     !.compound_head = "compound_head_first_page",
                     !.PG_tail = BitOr(Pow2(P2.pageflags["PG_compound"]),
                                       Pow2(P2.pageflags["PG_reclaim"])),
                     !.is_tail = "is_tail_flagcombo"]
             ELSE [P2 EXCEPT !.raised = "KeyError"]
        ELSE P2

\* Page.setup_pageflags_finish.  The lookup of PG_compound or PG_reclaim
\* raises KeyError when the enumeration has neither PG_tail nor these two;
\* the assignments made before the lookup stay.
setup_pageflags_finish(P) ==
    LET P1 == [P EXCEPT !.setup_pageflags_finish_done = TRUE,
                        !.is_tail = "is_tail_compound_head_bit",
                        !.compound_head = "compound_head_uses_low_bit"]
        P2 == IF "PG_tail" \in DOMAIN P1.pageflags
              THEN [P1 EXCEPT !.PG_tail = Pow2(P1.pageflags["PG_tail"]),
                              !.is_tail = "is_tail_flag"]
              ELSE P1
    IN  IF P2.compound_head_name = "first_page"
        THEN LET P3 == [P2 EXCEPT !.compound_head = "compound_head_first_page"]
             IN  IF P3.PG_tail = -1
                 THEN IF {"PG_compound", "PG_reclaim"} \subseteq DOMAIN P3.pageflags
                      THEN [P3 EXCEPT
                              !.PG_tail = BitOr(Pow2(P3.pageflags["PG_compound"]),
                                                Pow2(P3.pageflags["PG_reclaim"])),
                              !.is_tail = "is_tail_flagcombo"]
                      ELSE [P3 EXCEPT !.raised = "KeyError"]
                 ELSE P3
        ELSE P2

\* a plausible slip: the test of setup_pageflags_finish_done is left out
finish_due_unguarded(P, other_done) ==
    other_done

\* whether a callback that has just set its own done flag goes on to
\* setup_pageflags_finish: the other callback has run, finish has not
finish_due(P, other_done) ==
    other_done /\ ~P.setup_pageflags_finish_done

\* Page.setup_page_type(gdbtype) on a target of architecture arch
setup_page_type(P, arch, members) ==
    LET P1 == IF arch = "powerpc:common64"
              THEN [P EXCEPT !.PAGE_SHIFT = 16,
                             !.directmap_base = "0xc000000000000000",
                             !.sparsemem = TRUE,
                             !.sparsemem_vmemmap = FALSE,
                             !.sparsemem_extreme = FALSE,
                             !.SECTION_SIZE_BITS = 24]
              ELSE P
        P2 == [P1 EXCEPT
                 !.PAGE_SIZE = Pow2(P1.PAGE_SHIFT),
                 !.slab_cache_name =
                     find_member_variant(members, <<"slab_cache", "lru">>),
                 !.slab_page_name =
                     find_member_variant(members, <<"slab_page", "lru">>),
                 !.compound_head_name =
                     find_member_variant(members, <<"compound_head", "first_page">>),
                 !.vmemmap_set = TRUE,
                 !.setup_page_type_done = TRUE,
                 !.raised = "no"]
    IN  IF finish_due(P2, P2.setup_pageflags_done)
        THEN setup_pageflags_finish(P2)
        ELSE P2

\* sum of 1 << pageflags[name] over names[i..]; the names are distinct flags
RECURSIVE flags_check(_, _, _)
flags_check(pageflags, names, i) ==
    IF i > Len(names) THEN 0
    ELSE BitOr(Pow2(pageflags[names[i]]), flags_check(pageflags, names, i + 1))

\* Page.setup_pageflags(gdbtype), the part after setup_pageflags_finish:
\* each dictionary lookup raises KeyError for a name the enumeration lacks,
\* and the assignments made before it stay.
setup_pageflags_tail(P) ==
    LET has(n) == n \in DOMAIN P.pageflags
        P1 == IF has("PG_slab")
              THEN [P EXCEPT !.PG_slab = Pow2(P.pageflags["PG_slab"])]
              ELSE [P EXCEPT !.raised = "KeyError"]
        P2 == IF P1.raised = "no" /\ has("PG_lru")
              THEN [P1 EXCEPT !.PG_lru = Pow2(P.pageflags["PG_lru"])]
              ELSE [P1 EXCEPT !.raised = "KeyError"]
        P3 == IF P2.raised = "no" /\ has("PG_head")
              THEN [P2 EXCEPT !.PG_head = Pow2(P.pageflags["PG_head"])]
              ELSE [P2 EXCEPT !.raised = "KeyError"]
        names == PAGE_FLAGS_CHECK_AT_FREE_names
    IN  IF P3.raised = "no"
           /\ \A i \in 1 .. Len(names) : has(names[i])
           /\ has("__NR_PAGEFLAGS")
        THEN [P3 EXCEPT
                !.PAGE_FLAGS_CHECK_AT_FREE = flags_check(P.pageflags, names, 1),
                !.PAGE_FLAGS_CHECK_AT_PREP =
                    Pow2(P.pageflags["__NR_PAGEFLAGS"]) - 1]
        ELSE [P3 EXCEPT !.raised = "KeyError"]

\* Page.setup_pageflags(gdbtype): the enumerators are merged into the class
\* dictionary, then finish (when due), then the flag masks
setup_pageflags(P, enum) ==
    LET P1 == [P EXCEPT
                 !.pageflags = [n \in DOMAIN P.pageflags \cup DOMAIN enum |->
                                  IF n \in DOMAIN enum THEN enum[n]
                                  ELSE P.pageflags[n]],
                 !.setup_pageflags_done = TRUE,
                 !.raised = "no"]
        P2 == IF finish_due(P1, P1.setup_page_type_done)
              THEN setup_pageflags_finish(P1)
              ELSE P1
    IN  IF P2.raised = "no" THEN setup_pageflags_tail(P2) ELSE P2

\* a page descriptor object: Page(obj, pfn).  field is the value of the
\* head-pointer member the struct has (compound_head or first_page).
PageObj(address, pfn, flags, field) ==
    [address |-> address, pfn |-> pfn, flags |-> flags, field |-> field]

\* Page.is_tail under the active strategy
is_tail(P, self) ==
    CASE P.is_tail = "is_tail_flagcombo" ->
            BitAnd(self.flags, P.PG_tail) = P.PG_tail
      [] P.is_tail = "is_tail_flag" ->
            BitAnd(self.flags, P.PG_tail) # 0
      [] P.is_tail = "is_tail_compound_head_bit" ->
            BitAnd(self.field, 1) # 0

\* Page.__compound_head under the active strategy: the head's address
compound_head_addr(P, self) ==
    CASE P.compound_head = "compound_head_first_page" -> self.field
      [] P.compound_head = "compound_head_uses_low_bit" -> self.field - 1

\* Page.from_page_addr / Page.from_obj: the frame number is derived from
\* Page.vmemmap_base whatever the memory model; None outside 0 .. max_pfn.
\* flags is what the image holds at addr.
from_page_addr(P, t, addr, flags, field) ==
    LET pfn == (addr - P.vmemmap_base) \div t.page_sizeof IN
    IF pfn < 0 \/ pfn > t.max_pfn
    THEN [kind |-> "None", page |-> PageObj(0, 0, 0, 0)]
    ELSE [kind |-> "page", page |-> PageObj(addr, pfn, flags, field)]

\* a plausible slip: the head is resolved without asking is_tail first
compound_head_unconditional(P, t, self, head_flags, head_field) ==
    from_page_addr(P, t, compound_head_addr(P, self), head_flags, head_field)

\* Page.compound_head: self for a page that is not a tail
compound_head(P, t, self, head_flags, head_field) ==
    IF ~is_tail(P, self)
    THEN [kind |-> "page", page |-> self]
    ELSE from_page_addr(P, t, compound_head_addr(P, self),
                        head_flags, head_field)

---------------------------------------------------------------------------
(* Targets for the page model *)

\* enum pageflags of the three kernel generations
EnumCommon ==
    [n \in {"PG_locked", "PG_lru", "PG_active", "PG_slab", "PG_private",
            "PG_private_2", "PG_writeback"} |->
        CASE n = "PG_locked" -> 0 [] n = "PG_lru" -> 1 [] n = "PG_active" -> 2
          [] n = "PG_slab" -> 3 [] n = "PG_private" -> 4
          [] n = "PG_private_2" -> 5 [] n = "PG_writeback" -> 6]

EnumOf(rest) ==
    [n \in DOMAIN EnumCommon \cup { rest[i][1] : i \in 1 .. Len(rest) } |->
        IF n \in DOMAIN EnumCommon THEN EnumCommon[n]
        ELSE rest[CHOOSE i \in 1 .. Len(rest) : rest[i][1] = n][2]]

\* tagged head pointer, no tail flag (compound_head member)
EnumHeadOnly ==
    EnumOf(<< <<"PG_head", 7>>, <<"PG_reclaim", 8>>, <<"PG_reserved", 9>>,
              <<"PG_unevictable", 10>>, <<"PG_mlocked", 11>>,
              <<"__NR_PAGEFLAGS", 12>> >>)

\* dedicated head and tail flags (first_page member)
EnumHeadTail ==
    EnumOf(<< <<"PG_head", 7>>, <<"PG_tail", 8>>, <<"PG_reclaim", 9>>,
              <<"PG_reserved", 10>>, <<"PG_unevictable", 11>>,
              <<"PG_mlocked", 12>>, <<"__NR_PAGEFLAGS", 13>> >>)

\* one compound flag, tails marked by PG_compound + PG_reclaim (first_page)
EnumCompound ==
    EnumOf(<< <<"PG_compound", 7>>, <<"PG_reclaim", 8>>, <<"PG_reserved", 9>>,
              <<"PG_unevictable", 10>>, <<"PG_mlocked", 11>>,
              <<"__NR_PAGEFLAGS", 12>> >>)

Generations ==
    { [page_members |-> {"flags", "lru", "mapping", "compound_head",
                         "slab_cache"},
       pageflags |-> EnumHeadOnly, tagged |-> TRUE],
      [page_members |-> {"flags", "lru", "mapping", "first_page",
                         "slab_cache", "slab_page"},
       pageflags |-> EnumHeadTail, tagged |-> FALSE],
      [page_members |-> {"flags", "lru", "mapping", "first_page"},
       pageflags |-> EnumCompound, tagged |-> FALSE] }

\* targets: x86_64 keeps the descriptors in the virtual memory map at the
\* default vmemmap_base; powerpc:common64 keeps them in per-section maps
PageTargets ==
    { [arch |-> a, gen |-> g, page_sizeof |-> sz, max_pfn |-> MaxPfn,
       mem_map |-> IF a = "powerpc:common64" THEN 16 ELSE PageUnset.vmemmap_base] :
      a \in {"i386:x86-64", "powerpc:common64"}, g \in Generations,
      sz \in {4} }

\* address of the descriptor of frame pfn in target t
PageAddr(t, pfn) == t.mem_map + pfn * t.page_sizeof

\* how a head-pointer field of target t designates the descriptor at addr
HeadField(t, addr) == IF t.gen.tagged THEN addr + 1 ELSE addr

\* flag words met in page descriptors: bits 7 and 8 in every combination
\* (PG_head or PG_compound; PG_tail or PG_reclaim)
FlagWords == { b7 * 128 + b8 * 256 : b7 \in {0, 1}, b8 \in {0, 1} }

\* values met in the head-pointer field: a null pointer, the address of a
\* frame's descriptor, or that address with the low bit set
FieldValues(t) ==
    {0} \cup { PageAddr(t, f) : f \in 0 .. t.max_pfn }
           \cup { PageAddr(t, f) + 1 : f \in 0 .. t.max_pfn }

NoPret ==
    [op |-> "none", self |-> PageObj(0, 0, 0, 0), kind |-> "none",
     page |-> PageObj(0, 0, 0, 0)]

PageIdle ==
    /\ redelivered = {}
    /\ ptarget = CHOOSE t \in PageTargets : TRUE
    /\ Page = PageUnset
    /\ finish_calls = 0
    /\ pret = NoPret

InitPage ==
    /\ redelivered = {}
    /\ ptarget \in PageTargets
    /\ Page = PageUnset
    /\ finish_calls = 0
    /\ pret = NoPret
    /\ KallsymsIdle
    /\ SlabIdle
    /\ ArrayCachesIdle
    /\ WalkIdle
    /\ ZoneIdle
    /\ CatalogIdle
    /\ SectionIdle
    /\ FlagsIdle
    /\ ExpandIdle
    /\ ChainIdle

\* counters of the history variables stop at a cap
UpTo(n, cap) == IF n < cap THEN n ELSE cap

\* the type callback for 'struct page' is delivered
SetupPageType ==
    /\ Page' = setup_page_type(Page, ptarget.arch, ptarget.gen.page_members)
    /\ finish_calls' =
          IF finish_due([Page EXCEPT !.setup_page_type_done = TRUE],
                        Page.setup_pageflags_done)
          THEN UpTo(finish_calls + 1, 2)
          ELSE finish_calls
    /\ redelivered' = IF Page.setup_pageflags_finish_done
                      THEN redelivered \cup {"struct page"} ELSE redelivered
    /\ UNCHANGED <<ptarget, pret, kvars, svars, acvars, lvars, zvars, cvars, mvars, fvars, evars, bvars>>

\* the type callback for 'enum pageflags' is delivered
SetupPageflags ==
    /\ Page' = setup_pageflags(Page, ptarget.gen.pageflags)
    /\ finish_calls' =
          IF finish_due([Page EXCEPT !.setup_pageflags_done = TRUE],
                        Page.setup_page_type_done)
          THEN UpTo(finish_calls + 1, 2)
          ELSE finish_calls
    /\ redelivered' = IF Page.setup_pageflags_finish_done
                      THEN redelivered \cup {"enum pageflags"} ELSE redelivered
    /\ UNCHANGED <<ptarget, pret, kvars, svars, acvars, lvars, zvars, cvars, mvars, fvars, evars, bvars>>

\* page.compound_head() on the descriptor of frame pfn, the image holding
\* flags and field there and head_flags, head_field at the resolved head;
\* before setup_pageflags_finish the strategy attributes do not exist
CompoundHead(pfn, flags, field, head_flags, head_field) ==
    LET self == PageObj(PageAddr(ptarget, pfn), pfn, flags, field) IN
    /\ pret' =
          IF ~Page.setup_pageflags_finish_done
          THEN [NoPret EXCEPT !.op = "compound_head", !.self = self,
                              !.kind = "AttributeError"]
          ELSE LET r == compound_head(Page, ptarget, self, head_flags, head_field)
               IN  [op |-> "compound_head", self |-> self,
                    kind |-> r.kind, page |-> r.page]
    /\ UNCHANGED <<ptarget, Page, finish_calls, redelivered, kvars, svars, acvars, lvars, zvars, cvars, mvars, fvars, evars, bvars>>

NextPage ==
    \/ SetupPageType
    \/ SetupPageflags
    \/ \E pfn \in 0 .. ptarget.max_pfn, flags \in FlagWords,
          field \in FieldValues(ptarget), head_flags \in {128},
          head_field \in {0} :
          CompoundHead(pfn, flags, field, head_flags, head_field)

SpecPage == InitPage /\ [][NextPage]_vars

---------------------------------------------------------------------------
(* Claims about the page model *)

\* the last query was compound_head() and the strategy attributes existed
CompoundHeadDone ==
    pret.op = "compound_head" /\ pret.kind # "AttributeError"

\* C5: compound_head() on a page that the active strategy does not classify
\* as a tail returns that same descriptor, frame number unchanged.
C5_NonTailIsItsOwnHead ==
    (CompoundHeadDone /\ ~is_tail(Page, pret.self)) =>
        /\ pret.kind = "page"
        /\ pret.page = pret.self
        /\ pret.page.pfn = pret.self.pfn

\* C5 witness: a head page of frame 1 (PG_head set, head-pointer field
\* designating another frame's descriptor untagged) on the target without a
\* virtual memory map, returned as it is
C5_Witness ==
    /\ CompoundHeadDone
    /\ ~is_tail(Page, pret.self)
    /\ pret.self.pfn = 1
    /\ pret.self.flags = 128
    /\ pret.self.field = PageAddr(ptarget, 0)
    /\ ptarget.arch = "powerpc:common64"
    /\ pret.page.pfn = 1

\* C6: compound_head() on a page classified as a tail whose head-pointer
\* field designates the descriptor of frame F returns the descriptor of
\* frame F, under every strategy that setup can make active.
C6_TailResolvesToHead ==
    (CompoundHeadDone /\ is_tail(Page, pret.self)) =>
        \A F \in 0 .. ptarget.max_pfn :
            pret.self.field = HeadField(ptarget, PageAddr(ptarget, F)) =>
                /\ pret.kind = "page"
                /\ pret.page.pfn = F
                /\ pret.page.address = PageAddr(ptarget, F)

\* C6 holds on the targets whose descriptors lie in the virtual memory map
\* at Page.vmemmap_base (not a claim's formula; it locates the defect)
C6_OnVmemmapTargets ==
    ptarget.mem_map = Page.vmemmap_base => C6_TailResolvesToHead

\* the tail test, the head resolution and the tail mask in force
Strategy == <<Page.is_tail, Page.compound_head, Page.PG_tail>>

\* C7, state part: setup_pageflags_finish has run exactly once when both
\* setup_page_type and setup_pageflags have run, and not at all before.
C7_FinishOnceBothDone ==
    /\ finish_calls =
          IF Page.setup_page_type_done /\ Page.setup_pageflags_done
          THEN 1 ELSE 0
    /\ Page.setup_pageflags_finish_done <=> finish_calls = 1

\* C7: the strategy is chosen exactly once per session: finish runs only
\* after both callbacks have run, whatever their order and number, and no
\* later callback or page query changes the active strategy.
C7_StrategyChosenOnce ==
    /\ []C7_FinishOnceBothDone
    /\ [][Page.setup_pageflags_finish_done => Strategy' = Strategy]_vars

\* C7 witness: both callbacks were delivered again after finish had run,
\* finish ran once, and a tail page was resolved afterwards
C7_Witness ==
    /\ redelivered = {"struct page", "enum pageflags"}
    /\ finish_calls = 1
    /\ CompoundHeadDone
    /\ is_tail(Page, pret.self)
    /\ pret.kind = "page"

\* the three strategies: the tail test and the head resolution of each
Strategies ==
    { <<"is_tail_flag", "compound_head_first_page">>,
      <<"is_tail_compound_head_bit", "compound_head_uses_low_bit">>,
      <<"is_tail_flagcombo", "compound_head_first_page">> }

---------------------------------------------------------------------------
(* compound_head() on images whose resolved head is any descriptor *)

\* what the image may hold in the head-pointer member of the resolved head:
\* nothing, or a pointer (tagged where the kernel tags it) to frame 0
HeadFieldValues(t) == {0, HeadField(t, PageAddr(t, 0))}

\* the callbacks and compound_head() as in SpecPage, on the descriptor of
\* frame 1, the descriptor at the resolved address holding any flag word
\* and either head-pointer value
NextHead ==
    \/ SetupPageType
    \/ SetupPageflags
    \/ \E pfn \in {1}, flags \in FlagWords,
          field \in FieldValues(ptarget), head_flags \in FlagWords,
          head_field \in HeadFieldValues(ptarget) :
          CompoundHead(pfn, flags, field, head_flags, head_field)

SpecHead == InitPage /\ [][NextHead]_vars

\* C23: compound_head() on a tail page returns a page that is itself not a
\* tail; a resolved head that is another tail, or that is no valid page,
\* is not handed back as the result.
C23_HeadIsNotTail ==
    (CompoundHeadDone /\ is_tail(Page, pret.self)) =>
        /\ pret.kind = "page"
        /\ ~is_tail(Page, pret.page)

\* compound_head() on a tail has returned a descriptor that the active
\* strategy classifies as a tail
C23_TailReturned ==
    /\ CompoundHeadDone
    /\ is_tail(Page, pret.self)
    /\ pret.kind = "page"
    /\ is_tail(Page, pret.page)
    /\ pret.page.address # pret.self.address

\* compound_head() on a tail has returned None
C23_NoneReturned ==
    /\ CompoundHeadDone
    /\ is_tail(Page, pret.self)
    /\ pret.kind = "None"

---------------------------------------------------------------------------
(* Target images for the symbol reader *)

\* address an image's table entry stands for (the table as the kernel built
\* it: non-negative offsets are absolute, negative ones relative to the base)
TableAddr(off, base) == IF off >= 0 THEN off ELSE base - 1 - off

\* symbol tables of 1 .. MaxSyms entries whose addresses are non-decreasing
SortedTables(base) ==
    UNION { { f \in [0 .. (n - 1) -> (-MaxOff) .. (MaxOff - 1)] :
                \A i \in 0 .. (n - 2) :
                    TableAddr(f[i], base) <= TableAddr(f[i + 1], base) } :
            n \in 1 .. MaxSyms }

TableLen(f) == Cardinality(DOMAIN f)

\* the null entry that starts every ELF symbol table
NullSym == [st_shndx |-> 0, st_value |-> 0, name |-> ""]

\* entries of a module symbol table: undefined (its value is never read),
\* defined without a name, defined and named; starts lie in the module area
ModSyms ==
    { [st_shndx |-> 0, st_value |-> ModLo, name |-> "s"] } \cup
    { [st_shndx |-> 1, st_value |-> v, name |-> nm] :
        nm \in { "", "s" }, v \in ModLo .. (ModLo + MaxOff + 1) }

\* module symbol tables: the null entry and up to MaxSyms-1 entries
ModSymtabs ==
    UNION { { [i \in 0 .. n |-> IF i = 0 THEN NullSym ELSE f[i]] :
                f \in [1 .. n -> ModSyms] } : n \in 0 .. (MaxSyms - 1) }

\* segment layouts of the module under study: init freed, init below core,
\* core below init
ModLayouts ==
    { [init_layout |-> [base |-> 0, size |-> 0],
       core_layout |-> [base |-> ModLo, size |-> MaxOff]],
      [init_layout |-> [base |-> ModLo, size |-> MaxOff],
       core_layout |-> [base |-> ModLo + MaxOff, size |-> 2]],
      [init_layout |-> [base |-> ModLo + MaxOff, size |-> 2],
       core_layout |-> [base |-> ModLo, size |-> MaxOff]] }

\* a module without symbols that precedes the module under study in the list
OtherModule ==
    [init_layout |-> [base |-> 0, size |-> 0],
     core_layout |-> [base |-> ModLo + MaxOff + 2, size |-> 1],
     num_symtab |-> 1, symtab |-> [i \in {0} |-> NullSym]]

\* images with kernel symbol table f: _stext is one of its symbols, _end is
\* at or just above its last symbol; no module is loaded
KernelImagesOf(base, f) ==
    { [base_relative |-> c[1], absolute_percpu |-> c[2],
       num_syms |-> TableLen(f), relative_base |-> base, offsets |-> f,
       stext |-> TableAddr(f[i], base),
       end |-> TableAddr(f[TableLen(f) - 1], base) + e,
       mod_min |-> ModLo, mod_max |-> ModLo + 1, modules |-> << >>] :
      c \in BOOLEAN \X BOOLEAN, i \in DOMAIN f, e \in {0, 1} }

\* images that vary the kernel symbol table
KernelImages ==
    UNION { UNION { KernelImagesOf(base, f) : f \in SortedTables(base) } :
            base \in {MaxOff, MaxOff + 1} }

\* images that vary the loaded modules; the kernel table has one symbol
ModuleImages ==
    { [base_relative |-> c, absolute_percpu |-> TRUE,
       num_syms |-> 1, relative_base |-> MaxOff,
       offsets |-> [i \in {0} |-> -1],
       stext |-> MaxOff, end |-> MaxOff,
       mod_min |-> ModLo, mod_max |-> ModLo + MaxOff + 2,
       modules |-> pre \o << [init_layout |-> l.init_layout,
                              core_layout |-> l.core_layout,
                              num_symtab |-> TableLen(st),
                              symtab |-> st] >>] :
      c \in BOOLEAN, l \in ModLayouts, st \in ModSymtabs,
      pre \in { << >>, <<OtherModule>> } }

InitKallsyms ==
    /\ ktarget \in KernelImages \cup ModuleImages
    /\ Kallsyms = KallsymsUnset
    /\ kret = NoKret
    /\ PageIdle
    /\ SlabIdle
    /\ ArrayCachesIdle
    /\ WalkIdle
    /\ ZoneIdle
    /\ CatalogIdle
    /\ SectionIdle
    /\ FlagsIdle
    /\ ExpandIdle
    /\ ChainIdle

\* kallsyms_lookup(addr): _config_setup, then the lookup
KallsymsLookup(addr) ==
    LET K == config_setup(Kallsyms, ktarget) IN
    /\ Kallsyms' = K
    /\ kret' = [kallsyms_lookup(K, ktarget, addr) EXCEPT
                    !.op = "kallsyms_lookup", !.addr = addr]
    /\ UNCHANGED <<ktarget, pvars, svars, acvars, lvars, zvars, cvars, mvars, fvars, evars, bvars>>

NextKallsyms ==
    \E addr \in 0 .. (ModLo + MaxOff + 3) : KallsymsLookup(addr)

SpecKallsyms == InitKallsyms /\ [][NextKallsyms]_vars

---------------------------------------------------------------------------
(* Claims about the symbol reader *)

\* addresses of the kernel symbol table, as the last lookup saw them
KTableAddrs == { sym_address(Kallsyms, j) : j \in 0 .. (Kallsyms.kallsyms_num_syms - 1) }

\* the last call resolved an address of the main kernel range
KernelSymbolFound == kret.op = "kallsyms_lookup" /\ kret.kind = "symbol"

\* C1: for an address in the main kernel range and a table sorted in
\* non-decreasing order, the lookup selects an entry whose start is the
\* greatest start at or below the address, and offset = addr - start.
C1_GreatestStart ==
    KernelSymbolFound =>
        LET start == sym_address(Kallsyms, kret.pos) IN
        /\ kret.pos \in 0 .. (Kallsyms.kallsyms_num_syms - 1)
        /\ start <= kret.addr
        /\ \A a \in KTableAddrs : a <= kret.addr => a <= start
        /\ kret.offset = kret.addr - start

\* C1 witness: a lookup strictly inside a symbol that is not the first of a
\* three-entry table and has a symbol above it
C1_Witness ==
    /\ KernelSymbolFound
    /\ Kallsyms.kallsyms_num_syms = 3
    /\ kret.pos = 1
    /\ kret.offset > 0
    /\ sym_address(Kallsyms, 2) > kret.addr

\* C2: size is the distance from the matched start to the next strictly
\* greater address of the table (aliases do not end the symbol); when there
\* is no greater address the lookup still answers, with size = offset.
C2_SizeToNextDistinct ==
    KernelSymbolFound =>
        LET start == sym_address(Kallsyms, kret.pos)
            above == { a \in KTableAddrs : a > start }
        IN  kret.size = IF above # {} THEN Min(above) - start
                        ELSE kret.offset

\* C2 witness: the matched symbol has an alias right after it and a
\* greater address further on
C2_Witness ==
    /\ KernelSymbolFound
    /\ Kallsyms.kallsyms_num_syms = 3
    /\ kret.pos = 0
    /\ sym_address(Kallsyms, 1) = sym_address(Kallsyms, 0)
    /\ sym_address(Kallsyms, 2) > sym_address(Kallsyms, 0)
    /\ kret.size > 0

\* C2 witness of the fallback: no greater address, size = offset > 0
C2_WitnessFallback ==
    /\ KernelSymbolFound
    /\ kret.pos = Kallsyms.kallsyms_num_syms - 1
    /\ kret.offset > 0
    /\ kret.size = kret.offset

InKernelRange(addr) == ktarget.stext <= addr /\ addr <= ktarget.end

InSegment(layout, addr) ==
    addr >= layout.base /\ addr < layout.base + layout.size

HoldingModules(addr) ==
    { i \in 1 .. Len(ktarget.modules) :
        \/ InSegment(ktarget.modules[i].init_layout, addr)
        \/ InSegment(ktarget.modules[i].core_layout, addr) }

\* C3 as stated: kallsyms_lookup returns a string for every address and
\* every target configuration.
C3_NeverRaises ==
    kret.op = "kallsyms_lookup" => kret.kind # "NotImplementedError"

\* C3 amended: the lookup raises NotImplementedError exactly for an address
\* of the main kernel range on a target without CONFIG_KALLSYMS_BASE_RELATIVE
\* or without CONFIG_KALLSYMS_ABSOLUTE_PERCPU; every other call returns a
\* string, and an address outside the kernel range that no module segment
\* holds yields "unknown module symbol" inside the module area and
\* "unknown symbol" outside it.
C3_RaisesOnlyUnsupported ==
    kret.op = "kallsyms_lookup" =>
        /\ kret.kind = "NotImplementedError" <=>
              /\ InKernelRange(kret.addr)
              /\ ~(ktarget.base_relative /\ ktarget.absolute_percpu)
        /\ kret.kind \in {"NotImplementedError", "symbol", "module symbol",
                          "unknown symbol [mod]", "unknown module symbol",
                          "unknown symbol"}
        /\ (~InKernelRange(kret.addr) /\ HoldingModules(kret.addr) = {}) =>
              kret.kind =
                  IF ktarget.mod_min <= kret.addr /\ kret.addr <= ktarget.mod_max
                  THEN "unknown module symbol" ELSE "unknown symbol"

\* C3 witness: a kernel-range lookup on a target with BASE_RELATIVE but
\* without ABSOLUTE_PERCPU raised
C3_Witness ==
    /\ kret.op = "kallsyms_lookup"
    /\ kret.kind = "NotImplementedError"
    /\ ktarget.base_relative /\ ~ktarget.absolute_percpu

\* the module that answers for addr, its symbol table and segment end
HoldingModule(addr) == ktarget.modules[Min(HoldingModules(addr))]

SegmentEnd(mod, addr) ==
    IF InSegment(mod.init_layout, addr)
    THEN mod.init_layout.base + mod.init_layout.size
    ELSE mod.core_layout.base + mod.core_layout.size

\* the last call asked for an address held by a module segment
ModuleLookupDone ==
    /\ kret.op = "kallsyms_lookup"
    /\ ~InKernelRange(kret.addr)
    /\ ktarget.mod_min <= kret.addr /\ kret.addr <= ktarget.mod_max
    /\ HoldingModules(kret.addr) # {}

\* C4 as stated: the defined entry (section index # 0) with the greatest
\* start <= addr is selected, size = (smallest start > addr among the
\* entries, or the segment end if there is none) - start, offset = addr - start.
C4_AsStated ==
    ModuleLookupDone =>
        LET mod == HoldingModule(kret.addr)
            defined == { i \in 1 .. (mod.num_symtab - 1) :
                            mod.symtab[i].st_shndx # 0 }
            below == { mod.symtab[i].st_value : i \in
                        { j \in defined : mod.symtab[j].st_value <= kret.addr } }
            above == { mod.symtab[i].st_value : i \in
                        { j \in defined : mod.symtab[j].st_value > kret.addr } }
        IN  below # {} =>
              /\ kret.kind = "module symbol"
              /\ mod.symtab[kret.pos].st_value = Max(below)
              /\ kret.size = (IF above # {} THEN Min(above)
                              ELSE SegmentEnd(mod, kret.addr)) - Max(below)
              /\ kret.offset = kret.addr - Max(below)

\* C4 amended: entries that are undefined or have an empty name are ignored;
\* among the others the entry with the greatest start <= addr is selected,
\* provided its start is above the null entry's start (0), else the answer
\* is "unknown symbol [module]"; size = min(smallest start > addr among the
\* entries not ignored, end of the enclosing segment) - selected start, and
\* offset = addr - selected start.
C4_ModuleSymbol ==
    ModuleLookupDone =>
        LET mod == HoldingModule(kret.addr)
            kept == { i \in 1 .. (mod.num_symtab - 1) :
                        mod.symtab[i].st_shndx # 0 /\ mod.symtab[i].name # "" }
            below == { mod.symtab[i].st_value : i \in
                        { j \in kept : /\ mod.symtab[j].st_value <= kret.addr
                                       /\ mod.symtab[j].st_value > 0 } }
            above == { mod.symtab[i].st_value : i \in
                        { j \in kept : mod.symtab[j].st_value > kret.addr } }
                     \cup { SegmentEnd(mod, kret.addr) }
        IN  IF below = {}
            THEN kret.kind = "unknown symbol [mod]"
            ELSE /\ kret.kind = "module symbol"
                 /\ kret.pos \in kept
                 /\ mod.symtab[kret.pos].st_value = Max(below)
                 /\ kret.size = Min(above) - Max(below)
                 /\ kret.offset = kret.addr - Max(below)

\* C4 witness: a module symbol was found whose size is bounded by the
\* segment end although a named, defined entry starts above that end
C4_Witness ==
    /\ ModuleLookupDone
    /\ kret.kind = "module symbol"
    /\ kret.offset > 0
    /\ LET mod == HoldingModule(kret.addr) IN
       /\ mod.symtab[kret.pos].st_value + kret.size = SegmentEnd(mod, kret.addr)
       /\ \E i \in 1 .. (mod.num_symtab - 1) :
            /\ mod.symtab[i].st_shndx # 0 /\ mod.symtab[i].name # ""
            /\ mod.symtab[i].st_value > SegmentEnd(mod, kret.addr)

---------------------------------------------------------------------------
(* slab.py                                                                 *)
(*                                                                         *)
(* One slab of one cache.  A call works on W, the pair of the two objects  *)
(* it may change (the Slab and its KmemCache) and the lines it has printed *)
(* so far.  Addresses are small integers; a finding is a record of its     *)
(* kind and of the numbers its message carries.                            *)

\* largest number of objects per slab (kmem_cache.num) in the images
MaxObjs == 2

slab_partial == 0

slab_full == 1

slab_free == 2

\* ~0 & 0xffffffff, here the largest value of the model's integers
BUFCTL_END == 2 * (Pow2(30) - 1) + 1

Finding(kind, a, b, c, d) ==
    [kind |-> kind, a |-> a, b |-> b, c |-> c, d |-> d]

\* Slab.__init__(gdb_obj, kmem_cache) and KmemCache.__init__(name, gdb_obj)
NewSlab(t) ==
    [error |-> FALSE, free_set |-> FALSE, free |-> {},
     misplaced_list |-> "None", misplaced_error |-> NoFinding,
     inuse |-> t.inuse, s_mem |-> t.s_mem]

NewKmemCache(t) ==
    [objs_per_slab |-> t.objs_per_slab, buffer_size |-> t.buffer_size,
     off_slab |-> t.off_slab, off_slab_cache |-> "None",
     array_caches_set |-> FALSE, array_caches |-> << >>]

\* Slab.__error(msg, misplaced)
error(W, msg, misplaced) ==
    [W EXCEPT !.slab.error = TRUE,
              !.slab.misplaced_error = IF misplaced THEN msg ELSE @,
              !.out = IF misplaced THEN @ ELSE Append(@, msg)]

\* Slab.__free_error(list_name)
free_error(W, list_name) ==
    error([W EXCEPT !.slab.misplaced_list = list_name],
          Finding("is on list", W.slab.inuse, W.cache.objs_per_slab, 0, 0),
          TRUE)

\* a plausible slip: an address that is in the free set is added again and
\* accepted
add_free_obj_unchecked(W, idx) ==
    LET objs_per_slab == W.cache.objs_per_slab
        bufsize == W.cache.buffer_size
        obj_addr == W.slab.s_mem + idx * bufsize
    IN  IF idx >= objs_per_slab
        THEN [W |-> error(W, Finding("free object index overflows", idx,
                                     objs_per_slab, 0, 0), FALSE),
              ret |-> FALSE]
        ELSE [W |-> [W EXCEPT !.slab.free = @ \cup {obj_addr}],
              ret |-> TRUE]

\* Slab.__add_free_obj_by_idx(idx): the new W and the value returned
add_free_obj_by_idx(W, idx) ==
    LET objs_per_slab == W.cache.objs_per_slab
        bufsize == W.cache.buffer_size
        obj_addr == W.slab.s_mem + idx * bufsize
    IN  IF idx >= objs_per_slab
        THEN [W |-> error(W, Finding("free object index overflows", idx,
                                     objs_per_slab, 0, 0), FALSE),
              ret |-> FALSE]
        ELSE IF obj_addr \in W.slab.free
        THEN [W |-> error(W, Finding("duplicated on freelist", obj_addr,
                                     0, 0, 0), FALSE),
              ret |-> FALSE]
        ELSE [W |-> [W EXCEPT !.slab.free = @ \cup {obj_addr}],
              ret |-> TRUE]

\* a plausible slip: the loop over the freelist stops at an entry that is
\* refused, as the loop along the bufctl chain does
RECURSIVE populate_freelist_stops(_, _, _)
populate_freelist_stops(W, t, i) ==
    IF i >= W.cache.objs_per_slab THEN W
    ELSE LET r == add_free_obj_by_idx(W, t.bufctl[i])
         IN  IF ~r.ret THEN r.W
             ELSE populate_freelist_stops(r.W, t, i + 1)

\* the loop of __populate_free over struct page's freelist, from entry i
RECURSIVE populate_freelist(_, _, _)
populate_freelist(W, t, i) ==
    IF i >= W.cache.objs_per_slab THEN W
    ELSE populate_freelist(add_free_obj_by_idx(W, t.bufctl[i]).W, t, i + 1)

\* the loop of __populate_free along struct slab's bufctl chain, at index f
RECURSIVE populate_bufctl(_, _, _)
populate_bufctl(W, t, f) ==
    IF f = BUFCTL_END THEN W
    ELSE LET r == add_free_obj_by_idx(W, f)
         IN  IF ~r.ret
             THEN error(r.W, Finding("bufctl cycle detected", 0, 0, 0, 0),
                        FALSE)
             ELSE populate_bufctl(r.W, t, t.bufctl[f])

\* Slab.__populate_free(): a set that is None or empty is (re)built
populate_free(W, t) ==
    IF W.slab.free_set /\ W.slab.free # {} THEN W
    ELSE LET W0 == [W EXCEPT !.slab.free_set = TRUE, !.slab.free = {}]
         IN  IF t.page_slab
             THEN populate_freelist(W0, t, W0.slab.inuse)
             ELSE populate_bufctl(W0, t, t.free)

\* a plausible slip: no upper limit on the index
find_obj_unlimited(W, addr) ==
    IF addr < W.slab.s_mem THEN [none |-> TRUE, addr |-> 0]
    ELSE [none |-> FALSE,
          addr |-> W.slab.s_mem
                     + ((addr - W.slab.s_mem) \div W.cache.buffer_size)
                         * W.cache.buffer_size]

\* Slab.find_obj(addr); Python 2's / on integers is the floor division
find_obj(W, addr) ==
    LET bufsize == W.cache.buffer_size
        objs_per_slab == W.cache.objs_per_slab
        idx == (addr - W.slab.s_mem) \div bufsize
    IN  IF addr < W.slab.s_mem THEN [none |-> TRUE, addr |-> 0]
        ELSE IF idx >= objs_per_slab THEN [none |-> TRUE, addr |-> 0]
        ELSE [none |-> FALSE, addr |-> W.slab.s_mem + idx * bufsize]

\* KmemCache.get_array_caches(); image_ac is what __fill_all_array_caches
\* collects from the image the first time
get_array_caches(W, image_ac) ==
    IF W.cache.array_caches_set THEN W
    ELSE [W EXCEPT !.cache.array_caches_set = TRUE,
                   !.cache.array_caches = image_ac]

\* Slab.contains_obj(addr): the new W and the triple returned
contains_obj(W, t, image_ac, addr) ==
    LET obj == find_obj(W, addr)
        W1 == populate_free(W, t)
        W2 == get_array_caches(W1, image_ac)
        ac == W2.cache.array_caches
    IN  IF obj.none \/ obj.addr = 0
        THEN [W |-> W, found |-> FALSE, obj_addr |-> 0, ac |-> NoAc]
        ELSE IF obj.addr \in W1.slab.free
        THEN [W |-> W1, found |-> FALSE, obj_addr |-> obj.addr, ac |-> NoAc]
        ELSE IF obj.addr \in DOMAIN ac
        THEN [W |-> W2, found |-> FALSE, obj_addr |-> obj.addr,
              ac |-> ac[obj.addr]]
        ELSE [W |-> W2, found |-> TRUE, obj_addr |-> obj.addr, ac |-> NoAc]

\* check(), lines 204-226: the descriptor of an OFF_SLAB cache must itself
\* be an allocated object of a size-64 or size-128 slab.  o is what the
\* image gives for Slab.from_obj and contains_obj of the descriptor.
check_off_slab(W, o) ==
    IF ~o.is_slab
    THEN error(W, Finding("OFF_SLAB struct slab is not a slab object itself",
                          0, 0, 0, 0), FALSE)
    ELSE LET W1 == IF W.cache.off_slab_cache = "None"
                   THEN IF o.cache # "size-64" /\ o.cache # "size-128"
                        THEN error(W, Finding("OFF_SLAB wrong cache",
                                              0, 0, 0, 0), FALSE)
                        ELSE [W EXCEPT !.cache.off_slab_cache = o.cache]
                   ELSE IF o.cache # W.cache.off_slab_cache
                        THEN error(W, Finding("OFF_SLAB wrong cache",
                                              0, 0, 0, 0), FALSE)
                        ELSE W
         IN  IF ~o.allocated
             THEN [error(W1, Finding("OFF_SLAB struct slab is not allocated",
                                     0, 0, 0, 0), FALSE)
                   EXCEPT !.out = Append(@, Finding("print", 0, 0, 0, 0))]
             ELSE IF o.offset # 0
             THEN error(W1, Finding("OFF_SLAB struct slab at wrong offset",
                                    o.offset, 0, 0, 0), FALSE)
             ELSE W1

\* a plausible slip: only an excess of objects counts
inuse_free_exceed(inuse, num_free, max_free) ==
    inuse + num_free > max_free

\* check(), line 228: the test of in-use count plus free count
inuse_free_differ(inuse, num_free, max_free) ==
    inuse + num_free # max_free

\* a plausible slip: a slab of a partial list may have every object free
check_list_partial_lax(W, slabtype, num_free, max_free) ==
    IF slabtype = slab_free
    THEN IF num_free # max_free THEN free_error(W, "slab_free") ELSE W
    ELSE IF slabtype = slab_partial
    THEN IF num_free = 0 THEN free_error(W, "slab_partial") ELSE W
    ELSE IF slabtype = slab_full
    THEN IF num_free > 0 THEN free_error(W, "slab_full") ELSE W
    ELSE W

\* check(), lines 232-240: the slab against the list it was found on
check_list(W, slabtype, num_free, max_free) ==
    IF slabtype = slab_free
    THEN IF num_free # max_free THEN free_error(W, "slab_free") ELSE W
    ELSE IF slabtype = slab_partial
    THEN IF num_free = 0 \/ num_free = max_free
         THEN free_error(W, "slab_partial") ELSE W
    ELSE IF slabtype = slab_full
    THEN IF num_free > 0 THEN free_error(W, "slab_full") ELSE W
    ELSE W

\* check(), lines 258-282: the page of an object; pg is what the image
\* gives for the (compound head) page of the slab's objects
check_obj_page(W, t, pg, obj, nid) ==
    LET W1 == IF pg.nid # nid
              THEN error(W, Finding("obj is on nid", obj, pg.nid, nid, 0),
                         FALSE)
              ELSE W
        W2 == IF ~pg.is_slab
              THEN error(W1, Finding("obj is not on PageSlab page", obj,
                                     0, 0, 0), FALSE)
              ELSE W1
        W3 == IF ~pg.cache_ok
              THEN error(W2, Finding("wrong pointer to kmem_cache", obj,
                                     0, 0, 0), FALSE)
              ELSE W2
    IN  IF t.page_slab THEN W3
        ELSE IF ~pg.slab_ok
        THEN error(W3, Finding("wrong pointer to slab", obj, 0, 0, 0), FALSE)
        ELSE W3

\* a plausible slip: the test of the free set is inverted
allocated_in_array_cache(W, obj) ==
    obj \notin W.slab.free /\ obj \in DOMAIN W.cache.array_caches

\* check(), line 251: the object is on the free list and in an array cache
free_in_array_cache(W, obj) ==
    obj \in W.slab.free /\ obj \in DOMAIN W.cache.array_caches

\* check(), lines 249-282: the loop over get_objects(), from object i;
\* last_page_addr is 0 until a page has been looked at
RECURSIVE check_objects(_, _, _, _, _, _)
check_objects(W, t, pg, nid, i, last_page_addr) ==
    IF i >= W.cache.objs_per_slab THEN W
    ELSE LET obj == W.slab.s_mem + i * W.cache.buffer_size
             W1 == IF free_in_array_cache(W, obj)
                   THEN [error(W, Finding("free but in array cache", obj,
                                          0, 0, 0), FALSE)
                         EXCEPT !.out = Append(@, Finding("print", obj,
                                                          0, 0, 0))]
                   ELSE W
         IN  IF pg.fails
             THEN check_objects(
                      error(W1, Finding("failed to get page for object", obj,
                                        0, 0, 0), FALSE),
                      t, pg, nid, i + 1, last_page_addr)
             ELSE IF pg.address = last_page_addr
             THEN check_objects(W1, t, pg, nid, i + 1, last_page_addr)
             ELSE check_objects(check_obj_page(W1, t, pg, obj, nid),
                                t, pg, nid, i + 1, pg.address)

\* Slab.check(slabtype, nid): the new W, whether the call raised, and the
\* number it returned.  env is what the image gives for the pages and the
\* descriptor the call looks at.
check(W, t, slabtype, nid, env, image_ac) ==
    LET W1 == populate_free(W, t)
        num_free == Cardinality(W1.slab.free)
        max_free == W1.cache.objs_per_slab
        off == W1.cache.off_slab /\ ~t.page_slab
        W2 == IF off /\ ~env.offslab.raises
              THEN check_off_slab(W1, env.offslab) ELSE W1
        W3 == IF inuse_free_differ(W2.slab.inuse, num_free, max_free)
              THEN error(W2, Finding("inuse free adds up to", W2.slab.inuse,
                                     num_free, W2.slab.inuse + num_free,
                                     max_free), FALSE)
              ELSE W2
        W4 == check_list(W3, slabtype, num_free, max_free)
        W5 == IF t.page_slab /\ nid # env.slab_nid
              THEN [error(W4, Finding("slab is on nid", env.slab_nid, nid,
                                      0, 0), FALSE)
                    EXCEPT !.out = Append(@, Finding("free objects",
                                                     num_free, 0, 0, 0))]
              ELSE W4
        W6 == get_array_caches(W5, image_ac)
        W7 == check_objects(W6, t, env.objpage, nid, 0, 0)
    IN  IF off /\ env.offslab.raises
        THEN [W |-> W1, raised |-> TRUE, num_free |-> 0]
        ELSE [W |-> W7, raised |-> FALSE, num_free |-> num_free]

(***************************************************************************)
(* The slabs of the images.  The free list is any content of the memory   *)
(* the code reads: struct page's freelist array from entry `active' on,   *)
(* or struct slab's `free' and the bufctl entries its chain reaches.      *)
(* Entries the code never reads are held at one value.                    *)
(***************************************************************************)
\* the bufctl entries __populate_free reads on the chain from index f
RECURSIVE ChainRead(_, _, _, _)
ChainRead(bufctl, n, f, seen) ==
    IF f = BUFCTL_END \/ f >= n \/ f \in seen THEN seen
    ELSE ChainRead(bufctl, n, bufctl[f], seen \cup {f})

SlabImage(page_slab, n, off_slab, inuse, free, bufctl, slabtype) ==
    [page_slab |-> page_slab, objs_per_slab |-> n, buffer_size |-> 2,
     off_slab |-> off_slab, inuse |-> inuse, s_mem |-> 8,
     free |-> free, bufctl |-> bufctl, slabtype |-> slabtype]

\* the contents of freelist[inuse..n-1], the entries below held at 0
Freelists(n, inuse) ==
    { fl \in [0..(n - 1) -> 0..n] :
        \A i \in 0..(n - 1) : i < inuse => fl[i] = 0 }

PageSlabImagesAt(n, inuse) ==
    { SlabImage(TRUE, n, FALSE, inuse, BUFCTL_END, freelist, slabtype) :
        slabtype \in {slab_partial, slab_full, slab_free},
        freelist \in Freelists(n, inuse) }

PageSlabImagesOf(n) ==
    UNION { PageSlabImagesAt(n, inuse) : inuse \in 0..n }

StructSlabImagesOf(n) ==
    { SlabImage(FALSE, n, off_slab, inuse, free, bufctl, slabtype) :
        off_slab \in BOOLEAN, inuse \in 0..n,
        slabtype \in {slab_partial, slab_full, slab_free},
        free \in 0..n \cup {BUFCTL_END},
        bufctl \in [0..(n - 1) -> 0..n \cup {BUFCTL_END}] }

StructSlabImages(n) ==
    { t \in StructSlabImagesOf(n) :
        \A i \in 0..(n - 1) :
            i \notin ChainRead(t.bufctl, n, t.free, {})
                => t.bufctl[i] = BUFCTL_END }

SlabImages ==
    UNION { PageSlabImagesOf(n) \cup StructSlabImages(n) : n \in 1..MaxObjs }

\* what __fill_all_array_caches finds in the image: nothing, or the address
\* at s_mem in a per-cpu cache and the next one in a shared cache; it is
\* read once, array_caches is kept after
ImageAcs(t) ==
    { << >>,
      [a \in {t.s_mem, t.s_mem + t.buffer_size} |->
          IF a = t.s_mem
          THEN [ac_type |-> "percpu", nid_src |-> -1, nid_tgt |-> 0]
          ELSE [ac_type |-> "shared", nid_src |-> 0, nid_tgt |-> 0]] }

ImageAcsRead ==
    IF kmem_cache.array_caches_set THEN {kmem_cache.array_caches}
    ELSE ImageAcs(starget)

\* the page of the slab's objects and the descriptor of an OFF_SLAB slab
\* as they should be, and with one thing wrong
GoodEnv ==
    [slab_nid |-> 0,
     objpage |-> [fails |-> FALSE, address |-> 4, nid |-> 0,
                  is_slab |-> TRUE, cache_ok |-> TRUE, slab_ok |-> TRUE],
     offslab |-> [raises |-> FALSE, is_slab |-> TRUE, cache |-> "size-64",
                  allocated |-> TRUE, offset |-> 0]]

\* the pages of the objects, read under both layouts
ObjPageEnvs ==
    { GoodEnv,
      [GoodEnv EXCEPT !.objpage.fails = TRUE],
      [GoodEnv EXCEPT !.objpage.nid = 1],
      [GoodEnv EXCEPT !.objpage.is_slab = FALSE],
      [GoodEnv EXCEPT !.objpage.cache_ok = FALSE] }

\* the page of the slab itself, read when struct page is the descriptor
PageSlabEnvs ==
    { [GoodEnv EXCEPT !.slab_nid = 1] }

\* struct slab: the pointer back from the page, and the (OFF_SLAB)
\* descriptor
StructSlabEnvs(t) ==
    { [GoodEnv EXCEPT !.objpage.slab_ok = FALSE] }
    \cup IF t.off_slab
         THEN { [GoodEnv EXCEPT !.offslab.raises = TRUE],
                [GoodEnv EXCEPT !.offslab.is_slab = FALSE],
                [GoodEnv EXCEPT !.offslab.cache = "size-128"],
                [GoodEnv EXCEPT !.offslab.cache = "size-32"],
                [GoodEnv EXCEPT !.offslab.allocated = FALSE],
                [GoodEnv EXCEPT !.offslab.offset = 1] }
         ELSE {}

Envs(t) ==
    ObjPageEnvs
    \cup IF t.page_slab THEN PageSlabEnvs ELSE StructSlabEnvs(t)

InitSlab ==
    /\ starget \in SlabImages
    /\ kmem_cache = NewKmemCache(starget)
    /\ slab = NewSlab(starget)
    /\ findings = << >>
    /\ sret = NoSret
    /\ KallsymsIdle
    /\ PageIdle
    /\ ArrayCachesIdle
    /\ WalkIdle
    /\ ZoneIdle
    /\ CatalogIdle
    /\ SectionIdle
    /\ FlagsIdle
    /\ ExpandIdle
    /\ ChainIdle

\* slab.contains_obj(addr)
ContainsObj(addr, image_ac) ==
    \E r \in {contains_obj([slab |-> slab, cache |-> kmem_cache,
                            out |-> << >>], starget, image_ac, addr)} :
        /\ slab' = r.W.slab
        /\ kmem_cache' = r.W.cache
        /\ findings' = r.W.out
        /\ sret' = [NoSret EXCEPT !.op = "contains_obj",
                                  !.kind = "returned", !.addr = addr,
                                  !.found = r.found,
                                  !.obj_addr = r.obj_addr, !.ac = r.ac]
        /\ UNCHANGED <<starget, kvars, pvars, acvars, lvars, zvars, cvars, mvars, fvars, evars, bvars>>

\* slab.check(slabtype, nid) for the list the slab is on, on node 0
Check(env, image_ac) ==
    \E r \in {check([slab |-> slab, cache |-> kmem_cache, out |-> << >>],
                    starget, starget.slabtype, 0, env, image_ac)} :
        /\ slab' = r.W.slab
        /\ kmem_cache' = r.W.cache
        /\ findings' = r.W.out
        /\ sret' = [NoSret EXCEPT !.op = "check",
                                  !.kind = IF r.raised THEN "raised"
                                           ELSE "returned",
                                  !.num_free = r.num_free]
        /\ UNCHANGED <<starget, kvars, pvars, acvars, lvars, zvars, cvars, mvars, fvars, evars, bvars>>

NextSlab ==
    \/ \E addr \in (starget.s_mem - 1) ..
                    (starget.s_mem
                       + starget.objs_per_slab * starget.buffer_size),
          image_ac \in ImageAcsRead : ContainsObj(addr, image_ac)
    \/ \E env \in Envs(starget), image_ac \in ImageAcsRead :
          Check(env, image_ac)

SpecSlab == InitSlab /\ [][NextSlab]_vars

(***************************************************************************)
(* Properties of Slab.check and Slab.contains_obj                          *)
(***************************************************************************)
CheckReturned == sret.op = "check" /\ sret.kind = "returned"

\* the positions of the inuse+free findings among the lines of the call
MismatchFindings ==
    { i \in 1..Len(findings) : findings[i].kind = "inuse free adds up to" }

\* C8: a check() that returns has printed the inuse+free finding, with the
\* in-use count, the free count, their sum and the capacity, exactly when
\* in-use count + size of the free set differs from the cache's
\* objects-per-slab; it has printed none when the two are equal.
C8_MismatchFinding ==
    CheckReturned =>
        LET num_free == Cardinality(slab.free)
            capacity == starget.objs_per_slab
        IN  /\ sret.num_free = num_free
            /\ ((MismatchFindings # {})
                  <=> (starget.inuse + num_free # capacity))
            /\ Cardinality(MismatchFindings) <= 1
            /\ \A i \in MismatchFindings :
                  findings[i] = [kind |-> "inuse free adds up to",
                                 a |-> starget.inuse, b |-> num_free,
                                 c |-> starget.inuse + num_free,
                                 d |-> capacity]

\* C8 witness: a check of a slab whose counts fall short of the capacity
\* (a duplicate on the free list) has printed the finding
C8_Witness ==
    /\ CheckReturned
    /\ starget.objs_per_slab = 2
    /\ starget.inuse + Cardinality(slab.free) < starget.objs_per_slab
    /\ slab.free # {}
    /\ MismatchFindings # {}

\* a check of a consistent slab: no finding of any kind
C8_WitnessClean ==
    /\ CheckReturned
    /\ starget.inuse = 1 /\ Cardinality(slab.free) = 1
    /\ findings = << >>
    /\ ~slab.error

\* the free count does not fit the list the slab was found on
OnWrongList ==
    LET num_free == Cardinality(slab.free)
        capacity == starget.objs_per_slab
    IN  \/ starget.slabtype = slab_full /\ num_free # 0
        \/ starget.slabtype = slab_partial
             /\ ~(0 < num_free /\ num_free < capacity)
        \/ starget.slabtype = slab_free /\ num_free # capacity

ListName ==
    IF starget.slabtype = slab_full THEN "slab_full"
    ELSE IF starget.slabtype = slab_partial THEN "slab_partial"
    ELSE "slab_free"

\* C9: a check() that returns has marked the slab as misplaced (the list
\* name and the message are recorded on the slab, and the slab is in error)
\* exactly when its free count does not fit the list it was found on:
\* 0 on the full list, strictly between 0 and the capacity on the partial
\* list, the capacity on the free list.
C9_MisplacedExactly ==
    CheckReturned =>
        /\ ((slab.misplaced_list # "None") <=> OnWrongList)
        /\ ((slab.misplaced_error # NoFinding) <=> OnWrongList)
        /\ OnWrongList =>
              /\ slab.misplaced_list = ListName
              /\ slab.misplaced_error =
                    [kind |-> "is on list", a |-> starget.inuse,
                     b |-> starget.objs_per_slab, c |-> 0, d |-> 0]
              /\ slab.error

\* C9 witness: a slab of the partial list with every object free is marked
C9_Witness ==
    /\ CheckReturned
    /\ starget.slabtype = slab_partial
    /\ starget.objs_per_slab = 2
    /\ Cardinality(slab.free) = 2
    /\ slab.misplaced_list = "slab_partial"

\* a slab of the partial list with one object of two free is not marked
C9_WitnessFits ==
    /\ CheckReturned
    /\ starget.slabtype = slab_partial
    /\ Cardinality(slab.free) = 1
    /\ slab.misplaced_list = "None"

ContainsObjReturned == sret.op = "contains_obj"

\* the object range of the slab: s_mem up to s_mem + capacity * size
InObjectRange(addr) ==
    /\ starget.s_mem <= addr
    /\ addr < starget.s_mem + starget.objs_per_slab * starget.buffer_size

\* the starts of the object slots
SlotStarts ==
    { starget.s_mem + i * starget.buffer_size :
        i \in 0..(starget.objs_per_slab - 1) }

Rejected == ~sret.found /\ sret.obj_addr = 0 /\ sret.ac = NoAc

\* C10 as stated: contains_obj(addr) rejects (not contained, no object
\* address) every address outside the object range and every address that
\* is not the start of an object slot.
C10_RejectsMisaligned ==
    (/\ ContainsObjReturned
     /\ ~InObjectRange(sret.addr) \/ sret.addr \notin SlotStarts)
        => Rejected

\* C10: contains_obj(addr) rejects (not contained, no object address) every
\* address outside the object range; an address inside the range, aligned
\* or not, is resolved to the start of the slot that holds it, and that
\* slot is classified.
C10_RejectsOutOfRange ==
    ContainsObjReturned =>
        /\ (~InObjectRange(sret.addr) => Rejected)
        /\ InObjectRange(sret.addr) =>
              /\ sret.obj_addr \in SlotStarts
              /\ sret.obj_addr <= sret.addr
              /\ sret.addr < sret.obj_addr + starget.buffer_size
              /\ (sret.found <=> (/\ sret.obj_addr \notin slab.free
                                   /\ sret.ac = NoAc))

\* C10 witness: an address one past the start of an allocated object is
\* reported as contained, with the start of the object
C10_Witness ==
    /\ ContainsObjReturned
    /\ InObjectRange(sret.addr)
    /\ sret.addr \notin SlotStarts
    /\ sret.found
    /\ sret.obj_addr = sret.addr - 1

\* the first address past the last object is rejected
C10_WitnessOutOfRange ==
    /\ ContainsObjReturned
    /\ sret.addr = starget.s_mem
                     + starget.objs_per_slab * starget.buffer_size
    /\ Rejected

\* the addresses the call reported as free and in an array cache
ReportedFreeAndCached ==
    { findings[i].a : i \in { j \in 1..Len(findings) :
                                findings[j].kind = "free but in array cache" } }

\* C11: a check() that returns has printed a finding for every address that
\* is in the slab's free set and in the cache's array-cache map, and for no
\* other address.
C11_FreeAndCachedReported ==
    CheckReturned =>
        ReportedFreeAndCached
            = slab.free \cap DOMAIN kmem_cache.array_caches

\* C11 witness: two free objects of one slab are both in array caches and
\* both are reported
C11_Witness ==
    /\ CheckReturned
    /\ Cardinality(slab.free \cap DOMAIN kmem_cache.array_caches) = 2
    /\ Cardinality(ReportedFreeAndCached) = 2

---------------------------------------------------------------------------
(* slab.py: aggregation of the array caches of one cache                   *)
(*                                                                         *)
(* A is the state of the aggregation: the map built so far (ac), the lines *)
(* printed (out) and whether an exception is on its way up (raised).  An    *)
(* array cache of the image is the sequence entry[0..avail-1], or null.     *)

\* largest `avail' of an array cache in the images
MaxAvail == 2

AcFinding(kind, ptr, obj_nid, nid_tgt) ==
    [kind |-> kind, a |-> ptr, b |-> obj_nid, c |-> nid_tgt, d |-> 0]

\* KmemCache.__fill_array_cache, the loop over entry[i..avail-1];
\* Page.from_addr(ptr) fails or gives the page whose flags hold page_nid
RECURSIVE fill_entries(_, _, _, _, _, _)
fill_entries(A, t, entry, i, cache_dict, nid_tgt) ==
    IF A.raised \/ i > Len(entry) THEN A
    ELSE LET ptr == entry[i]
             A1 == IF ptr \in DOMAIN A.ac
                   THEN [A EXCEPT !.out =
                            Append(@, AcFinding("array cache duplicity",
                                                0, 0, 0))]
                   ELSE [A EXCEPT !.ac = @ @@ (ptr :> cache_dict)]
             obj_nid == t.page_nid[ptr]
             A2 == IF t.lookup_fails THEN [A1 EXCEPT !.raised = TRUE]
                   ELSE IF obj_nid # nid_tgt
                   THEN [A1 EXCEPT !.out =
                            Append(@, AcFinding("object is on wrong nid",
                                                ptr, obj_nid, nid_tgt))]
                   ELSE A1
         IN  fill_entries(A2, t, entry, i + 1, cache_dict, nid_tgt)

\* KmemCache.__fill_array_cache(acache, ac_type, nid_src, nid_tgt)
fill_array_cache(A, t, acache, ac_type, nid_src, nid_tgt) ==
    IF A.raised \/ Len(acache.entry) = 0 THEN A
    ELSE fill_entries(A, t, acache.entry, 1,
                      [ac_type |-> ac_type, nid_src |-> nid_src,
                       nid_tgt |-> nid_tgt],
                      IF ac_type = "percpu" THEN t.numa_node[nid_tgt]
                      ELSE nid_tgt)

\* a plausible slip: the slot of the node itself is read like the others
alien_slot_of_other_node(nid_src, nid) == TRUE

\* KmemCache.__fill_alien_caches, line 444: unless nid_src == nid
alien_slot_is_read(nid_src, nid) == nid_src # nid

\* KmemCache.__fill_alien_caches, the loop over Node.for_each_nid(), from
\* the i-th nid
RECURSIVE fill_alien_slots(_, _, _, _, _)
fill_alien_slots(A, t, alien, nid_src, i) ==
    IF A.raised \/ i > Len(t.nids) THEN A
    ELSE LET nid == t.nids[i]
             array == alien.slots[nid]
         IN  IF array.null \/ ~alien_slot_is_read(nid_src, nid)
             THEN fill_alien_slots(A, t, alien, nid_src, i + 1)
             ELSE fill_alien_slots(
                      fill_array_cache(A, t, array, "alien", nid_src, nid),
                      t, alien, nid_src, i + 1)

\* KmemCache.__fill_alien_caches(node, nid_src)
fill_alien_caches(A, t, node, nid_src) ==
    IF node.alien.null THEN A
    ELSE fill_alien_slots(A, t, node.alien, nid_src, 1)

\* KmemCache.__fill_percpu_caches, the loop over the online cpus
RECURSIVE fill_percpu_caches(_, _, _)
fill_percpu_caches(A, t, i) ==
    IF A.raised \/ i > Len(t.cpus) THEN A
    ELSE fill_percpu_caches(
             fill_array_cache(A, t, t.percpu[t.cpus[i]], "percpu", -1,
                              t.cpus[i]),
             t, i + 1)

\* KmemCache.__fill_all_array_caches, the loop over __get_nodelists(),
\* which leaves out the nodes whose pointer is null
RECURSIVE fill_nodes(_, _, _)
fill_nodes(A, t, i) ==
    IF A.raised \/ i > Len(t.nids) THEN A
    ELSE LET nid == t.nids[i]
             node == t.nodelists[nid]
             A1 == IF node.shared.null THEN A
                   ELSE fill_array_cache(A, t, node.shared, "shared",
                                         nid, nid)
         IN  IF node.null THEN fill_nodes(A, t, i + 1)
             ELSE fill_nodes(fill_alien_caches(A1, t, node, nid), t, i + 1)

\* KmemCache.__fill_all_array_caches()
fill_all_array_caches(t) ==
    fill_nodes(fill_percpu_caches([ac |-> << >>, out |-> << >>,
                                   raised |-> FALSE], t, 1), t, 1)

(***************************************************************************)
(* The array caches of the images: two possible nodes, one online cpu on   *)
(* node 0, two object addresses (8 on a page of node 0, 10 on a page of    *)
(* node 1).  Node 0 has any alien caches and a small shared cache; node 1   *)
(* is absent or has one fixed set of caches.                                *)
(***************************************************************************)
AcPtrs == {8, 10}

RECURSIVE SeqsUpTo(_, _)
SeqsUpTo(S, n) ==
    IF n = 0 THEN {<< >>}
    ELSE LET shorter == SeqsUpTo(S, n - 1)
         IN  shorter \cup { Append(q, x) : q \in shorter, x \in S }

NullArray == [null |-> TRUE, entry |-> << >>]

ArrayOf(entry) == [null |-> FALSE, entry |-> entry]

Arrays == { ArrayOf(entry) : entry \in SeqsUpTo(AcPtrs, MaxAvail) }

\* the shared cache of a node holds at most one address
SharedArrays == { ArrayOf(entry) : entry \in SeqsUpTo(AcPtrs, 1) }

NullAlien == [null |-> TRUE, slots |-> << >>]

Aliens ==
    {NullAlien}
    \cup { [null |-> FALSE, slots |-> slots] :
              slots \in [{0, 1} -> {NullArray} \cup Arrays] }

NullNode == [null |-> TRUE, shared |-> NullArray, alien |-> NullAlien]

Nodes0 ==
    { [null |-> FALSE, shared |-> shared, alien |-> alien] :
        shared \in {NullArray} \cup SharedArrays, alien \in Aliens }

Nodes1 ==
    { NullNode,
      [null |-> FALSE, shared |-> ArrayOf(<<10>>),
       alien |-> [null |-> FALSE,
                  slots |-> [nid \in {0, 1} |->
                               IF nid = 0 THEN ArrayOf(<<8>>)
                               ELSE ArrayOf(<<10>>)]]] }

AcImages ==
    { [nids |-> <<0, 1>>, cpus |-> <<0>>, numa_node |-> [cpu \in {0} |-> 0],
       percpu |-> [cpu \in {0} |-> percpu],
       nodelists |-> [nid \in {0, 1} |-> IF nid = 0 THEN node0 ELSE node1],
       page_nid |-> [ptr \in AcPtrs |-> IF ptr = 8 THEN 0 ELSE 1],
       lookup_fails |-> lookup_fails] :
        percpu \in Arrays, node0 \in Nodes0, node1 \in Nodes1,
        lookup_fails \in BOOLEAN }

InitArrayCaches ==
    /\ actarget \in AcImages
    /\ SlabIdle
    /\ KallsymsIdle
    /\ PageIdle
    /\ WalkIdle
    /\ ZoneIdle
    /\ CatalogIdle
    /\ SectionIdle
    /\ FlagsIdle
    /\ ExpandIdle
    /\ ChainIdle

\* kmem_cache.get_array_caches(): the map is built on the first call
GetArrayCaches ==
    \E A \in {fill_all_array_caches(actarget)} :
        /\ kmem_cache' =
              IF kmem_cache.array_caches_set THEN kmem_cache
              ELSE [kmem_cache EXCEPT !.array_caches_set = TRUE,
                                      !.array_caches = A.ac]
        /\ findings' = IF kmem_cache.array_caches_set THEN << >> ELSE A.out
        /\ sret' = [NoSret EXCEPT
                      !.op = "get_array_caches",
                      !.kind = IF ~kmem_cache.array_caches_set /\ A.raised
                               THEN "raised" ELSE "returned"]
        /\ UNCHANGED <<starget, slab, actarget, kvars, pvars, lvars, zvars, cvars, mvars, fvars, evars, bvars>>

NextArrayCaches == GetArrayCaches

SpecArrayCaches == InitArrayCaches /\ [][NextArrayCaches]_vars

\* the image with the alien slots of every node for the node itself emptied
WithoutOwnSlots(t) ==
    [t EXCEPT !.nodelists =
        [nid \in DOMAIN t.nodelists |->
            IF t.nodelists[nid].null \/ t.nodelists[nid].alien.null
            THEN t.nodelists[nid]
            ELSE [t.nodelists[nid] EXCEPT !.alien.slots[nid] = NullArray]]]

\* C12: an alien-cache slot whose source node is its target node is
\* skipped.  No entry of the map built by the aggregation comes from such
\* a slot, and the map, the lines printed and the way the aggregation ends
\* are what they are for the image in which every such slot is empty.
C12_OwnAlienSlotSkipped ==
    (sret.op = "get_array_caches" /\ kmem_cache.array_caches_set) =>
        /\ \A ptr \in DOMAIN kmem_cache.array_caches :
              ~(/\ kmem_cache.array_caches[ptr].ac_type = "alien"
                /\ kmem_cache.array_caches[ptr].nid_src
                     = kmem_cache.array_caches[ptr].nid_tgt)
        /\ kmem_cache.array_caches
              = fill_all_array_caches(WithoutOwnSlots(actarget)).ac
        /\ findings \in {<< >>,
                         fill_all_array_caches(WithoutOwnSlots(actarget)).out}
        /\ (sret.kind = "raised") =>
              fill_all_array_caches(WithoutOwnSlots(actarget)).raised

\* C12 witness: node 0 holds two addresses in its alien slot for node 0,
\* a page lookup would fail, and the aggregation has returned an empty map
\* without a line printed
C12_Witness ==
    /\ sret.op = "get_array_caches"
    /\ sret.kind = "returned"
    /\ actarget.lookup_fails
    /\ ~actarget.nodelists[0].null
    /\ ~actarget.nodelists[0].alien.null
    /\ Len(actarget.nodelists[0].alien.slots[0].entry) = 2
    /\ kmem_cache.array_caches = << >>
    /\ findings = << >>

(***************************************************************************)
(* What the array caches of the image hold                                 *)
(***************************************************************************)
\* the array caches the aggregation is to merge, in the order it reads
\* them (rank): the per-CPU cache of each online cpu, then node by node the
\* shared cache and the alien caches for the other nodes
Sources(t) ==
    { [ac_type |-> "percpu", nid_src |-> -1, nid_tgt |-> t.cpus[i],
       entry |-> t.percpu[t.cpus[i]].entry, rank |-> i] :
         i \in 1..Len(t.cpus) }
    \cup
    { [ac_type |-> "shared", nid_src |-> t.nids[i], nid_tgt |-> t.nids[i],
       entry |-> t.nodelists[t.nids[i]].shared.entry, rank |-> 100 * i] :
         i \in { i \in 1..Len(t.nids) : ~t.nodelists[t.nids[i]].null } }
    \cup
    { [ac_type |-> "alien", nid_src |-> t.nids[p[1]], nid_tgt |-> t.nids[p[2]],
       entry |-> t.nodelists[t.nids[p[1]]].alien.slots[t.nids[p[2]]].entry,
       rank |-> 100 * p[1] + p[2]] :
         p \in { p \in (1..Len(t.nids)) \X (1..Len(t.nids)) :
                   /\ ~t.nodelists[t.nids[p[1]]].null
                   /\ ~t.nodelists[t.nids[p[1]]].alien.null
                   /\ p[1] # p[2] } }

\* the sources that hold an address
Holders(t, ptr) ==
    { src \in Sources(t) : \E i \in 1..Len(src.entry) : src.entry[i] = ptr }

\* every address held by a source
HeldAddresses(t) == { ptr \in AcPtrs : Holders(t, ptr) # {} }

\* the source the aggregation reads first among those that hold ptr
FirstHolder(t, ptr) ==
    CHOOSE src \in Holders(t, ptr) :
        \A other \in Holders(t, ptr) : src.rank <= other.rank

\* how often an address is held beyond its first occurrence
Repeats(t) ==
    LET S == Sources(t)
        f[T \in SUBSET S] ==
            IF T = {} THEN 0
            ELSE LET src == CHOOSE src \in T : TRUE
                 IN  Len(src.entry) + f[T \ {src}]
    IN  f[S] - Cardinality(HeldAddresses(t))

\* the map holds every address of the image's caches, each with the entry
\* of the first source that holds it
MapComplete ==
    /\ DOMAIN kmem_cache.array_caches = HeldAddresses(actarget)
    /\ \A ptr \in HeldAddresses(actarget) :
          kmem_cache.array_caches[ptr]
            = [ac_type |-> FirstHolder(actarget, ptr).ac_type,
               nid_src |-> FirstHolder(actarget, ptr).nid_src,
               nid_tgt |-> FirstHolder(actarget, ptr).nid_tgt]

\* C25: after the aggregation of the array caches, the map that
\* get_array_caches() returns contains every address held by a per-CPU
\* cache, a shared cache or an alien cache for another node, an address of
\* several sources with the entry of the first of them.
C25_MapHoldsEveryAddress ==
    (sret.op = "get_array_caches" /\ sret.kind = "returned") => MapComplete

\* C25 on an aggregation that has run to its end: the map is complete and
\* every repeated occurrence of an address has been reported
C25_CompleteWhenFilled ==
    (/\ sret.op = "get_array_caches"
     /\ ~fill_all_array_caches(actarget).raised) =>
        /\ MapComplete
        /\ findings # << >> =>
              Cardinality({ i \in 1..Len(findings) :
                              findings[i].kind = "array cache duplicity" })
                = Repeats(actarget)

\* the aggregation has run to its end on an image that holds address 8 in
\* the per-CPU cache and in a shared cache: the map has the per-CPU entry
C25_DuplicateKept ==
    /\ sret.op = "get_array_caches"
    /\ ~actarget.lookup_fails
    /\ Cardinality({ src.ac_type : src \in Holders(actarget, 8) }) > 1
    /\ kmem_cache.array_caches[8].ac_type = "percpu"
    /\ findings # << >>

\* a page lookup has failed in the aggregation, and a later call has
\* returned the map as far as it was filled: one address of two
C25_PartialMapReturned ==
    /\ sret.op = "get_array_caches"
    /\ sret.kind = "returned"
    /\ actarget.lookup_fails
    /\ HeldAddresses(actarget) = {8, 10}
    /\ Cardinality(DOMAIN kmem_cache.array_caches) = 1

---------------------------------------------------------------------------
(* slab.py: the check of one slab list of a node                           *)
(*                                                                         *)
(* list_for_each_entry is outside this program: a walk of the list yields  *)
(* the first k entries in its direction and then ends, or raises.  What    *)
(* Slab.__init__ and Slab.check do to one slab is given by the image:      *)
(*   "ok"        check() finds nothing                                     *)
(*   "bad"       check() reports an error, the slab is on the right list   *)
(*   "misplaced" check() records that the slab is on the wrong list        *)
(*   "uninit"    Slab.__init__ raises, from_list yields Slab(error=True)   *)
(*   "raises"    check() raises                                            *)
(* R is the state of one walk: the errors dictionary, the lines printed,   *)
(* the two counters, the slabs handed to __check_slab, and whether an      *)
(* exception has ended the loop.                                           *)

\* largest number of slabs on the list in the images
MaxSlabs == 3

SlabKinds == {"ok", "bad", "misplaced", "uninit", "raises"}

\* the address of the i-th slab of the list
SlabAddr(i) == 16 * i

\* what check() returns for a slab it is run on
NumFree(kind) == 1

WalkFinding(kind, a, b, c) == [kind |-> kind, a |-> a, b |-> b, c |-> c, d |-> 0]

NoErrors ==
    [first_ok |-> 0, last_ok |-> 0, num_ok |-> 0,
     num_misplaced |-> 0, last_misplaced |-> 0]

\* a plausible slip: a slab with an error does not end the run of
\* error-free slabs before it
check_slab_unflushed(R, kind, addr) ==
    LET slab_error == kind # "ok"
        misplaced == kind = "misplaced"
        free == IF kind = "uninit" THEN 0 ELSE NumFree(kind)
        R1 == IF ~misplaced /\ R.errors.num_misplaced > 0
              THEN [R EXCEPT
                      !.out = @ \o
                         << WalkFinding("slab objects were misplaced",
                                        R.errors.num_misplaced, 0, 0),
                            WalkFinding("print misplaced",
                                        R.errors.last_misplaced, 0, 0) >>,
                      !.errors.num_misplaced = 0,
                      !.errors.last_misplaced = 0]
              ELSE R
        R2 == IF ~slab_error
              THEN [R1 EXCEPT
                      !.errors.num_ok = @ + 1,
                      !.errors.last_ok = addr,
                      !.errors.first_ok = IF @ = 0 THEN addr ELSE @]
              ELSE IF misplaced
                   THEN [R1 EXCEPT
                           !.out = IF R1.errors.num_misplaced = 0
                                   THEN Append(@,
                                          WalkFinding("print misplaced",
                                                      addr, 0, 0))
                                   ELSE @,
                           !.errors.num_misplaced = @ + 1,
                           !.errors.last_misplaced = addr]
                   ELSE R1
    IN  IF kind = "raises"
        THEN [R EXCEPT !.raised = TRUE, !.visited = Append(@, addr)]
        ELSE [R2 EXCEPT !.free = @ + free, !.slabs = @ + 1,
                        !.visited = Append(@, addr)]

\* KmemCache.__check_slab(slab, slabtype, nid, errors); first_ok, last_ok
\* and last_misplaced are 0 for None
check_slab(R, kind, addr) ==
    LET slab_error == kind # "ok"
        misplaced == kind = "misplaced"
        free == IF kind = "uninit" THEN 0 ELSE NumFree(kind)
        R1 == IF ~misplaced /\ R.errors.num_misplaced > 0
              THEN [R EXCEPT
                      !.out = @ \o
                         << WalkFinding("slab objects were misplaced",
                                        R.errors.num_misplaced, 0, 0),
                            WalkFinding("print misplaced",
                                        R.errors.last_misplaced, 0, 0) >>,
                      !.errors.num_misplaced = 0,
                      !.errors.last_misplaced = 0]
              ELSE R
        R2 == IF ~slab_error
              THEN [R1 EXCEPT
                      !.errors.num_ok = @ + 1,
                      !.errors.last_ok = addr,
                      !.errors.first_ok = IF @ = 0 THEN addr ELSE @]
              ELSE LET R3 == IF R1.errors.num_ok > 0
                             THEN [R1 EXCEPT
                                     !.out = Append(@,
                                        WalkFinding("slab objects were ok",
                                                    R1.errors.num_ok,
                                                    R1.errors.first_ok,
                                                    R1.errors.last_ok)),
                                     !.errors.num_ok = 0,
                                     !.errors.first_ok = 0,
                                     !.errors.last_ok = 0]
                             ELSE R1
                   IN  IF misplaced
                       THEN [R3 EXCEPT
                               !.out = IF R3.errors.num_misplaced = 0
                                       THEN Append(@,
                                              WalkFinding("print misplaced",
                                                          addr, 0, 0))
                                       ELSE @,
                               !.errors.num_misplaced = @ + 1,
                               !.errors.last_misplaced = addr]
                       ELSE R3
    IN  IF kind = "raises"
        THEN [R EXCEPT !.raised = TRUE, !.visited = Append(@, addr)]
        ELSE [R2 EXCEPT !.free = @ + free, !.slabs = @ + 1,
                        !.visited = Append(@, addr)]

\* Slab.from_list with the loop of ___check_slabs around it: the j-th entry
\* of the walk, and on to the end; fail is the number of entries the list
\* walk yields before it raises, -1 if it does not raise
RECURSIVE walk_slabs(_, _, _, _, _)
walk_slabs(R, t, reverse, fail, j) ==
    LET n == Len(t.slabs)
        i == IF reverse THEN n + 1 - j ELSE j
    IN  IF R.raised THEN R
        ELSE IF fail = j - 1 THEN [R EXCEPT !.raised = TRUE]
        ELSE IF j > n THEN R
        ELSE LET R1 == IF t.slabs[i] = "uninit"
                       THEN [R EXCEPT !.out = Append(@,
                               WalkFinding("failed to initialize slab object",
                                           SlabAddr(i), 0, 0))]
                       ELSE R
             IN  walk_slabs(check_slab(R1, t.slabs[i], SlabAddr(i)),
                            t, reverse, fail, j + 1)

\* KmemCache.___check_slabs(slab_list, slabtype, nid, reverse)
check_slabs_walk(t, reverse) ==
    LET R == walk_slabs([errors |-> NoErrors, out |-> << >>, free |-> 0,
                         slabs |-> 0, visited |-> << >>, raised |-> FALSE],
                        t, reverse,
                        IF reverse THEN t.backward ELSE t.forward, 1)
        out1 == IF R.raised
                THEN Append(R.out,
                        WalkFinding("Unrecoverable error when traversing",
                                    t.slabtype, 0, 0))
                ELSE R.out
        out2 == IF R.errors.num_ok > 0
                THEN Append(out1,
                        WalkFinding("slab objects were ok", R.errors.num_ok,
                                    R.errors.first_ok, R.errors.last_ok))
                ELSE out1
        out3 == IF R.errors.num_misplaced > 0
                THEN out2 \o
                     << WalkFinding("slab objects were misplaced",
                                    R.errors.num_misplaced, 0, 0),
                        WalkFinding("print misplaced",
                                    R.errors.last_misplaced, 0, 0) >>
                ELSE out2
    IN  [reverse |-> reverse, check_ok |-> ~R.raised, slabs |-> R.slabs,
         free |-> R.free, out |-> out3, visited |-> R.visited]

\* a plausible slip: a failed walk is not tried again
retry_never(check_ok) == FALSE

\* KmemCache.__check_slabs, line 561: if not check_ok
retry_due(check_ok) == ~check_ok

\* KmemCache.__check_slabs(slab_list, slabtype, nid): the walks made, the
\* lines printed and the number returned
check_slabs(t) ==
    LET fwd == check_slabs_walk(t, FALSE)
        rev == check_slabs_walk(t, TRUE)
        head == <<WalkFinding("checking slab list", t.slabtype, 0, 0)>>
    IN  IF retry_due(fwd.check_ok)
        THEN [walks |-> <<fwd, rev>>,
              out |-> head \o fwd.out
                        \o <<WalkFinding("Retrying the slab list in reverse order",
                                         0, 0, 0)>>
                        \o rev.out,
              slabs |-> fwd.slabs + rev.slabs,
              free |-> fwd.free + rev.free]
        ELSE [walks |-> <<fwd>>, out |-> head \o fwd.out,
              slabs |-> fwd.slabs, free |-> fwd.free]

(***************************************************************************)
(* The slab lists of the images: up to MaxSlabs slabs of any kind, and for *)
(* each direction either a sound chain of links or one that breaks after   *)
(* some number of entries.                                                 *)
(***************************************************************************)
SlabLists ==
    UNION { [1..n -> SlabKinds] : n \in 0..MaxSlabs }

ListImages ==
    { x \in { [slabs |-> l, forward |-> f, backward |-> b,
               slabtype |-> slab_partial] :
                l \in SlabLists, f \in -1..MaxSlabs, b \in -1..MaxSlabs } :
        x.forward <= Len(x.slabs) /\ x.backward <= Len(x.slabs) }

InitWalk ==
    /\ ltarget \in ListImages
    /\ wret = NoWret
    /\ SlabIdle
    /\ KallsymsIdle
    /\ PageIdle
    /\ ArrayCachesIdle
    /\ ZoneIdle
    /\ CatalogIdle
    /\ SectionIdle
    /\ FlagsIdle
    /\ ExpandIdle
    /\ ChainIdle

\* kmem_cache.__check_slabs(slab_list, slabtype, nid)
CheckSlabs ==
    \E r \in {check_slabs(ltarget)} :
        /\ findings' = r.out
        /\ wret' = [op |-> "check_slabs", free |-> r.free,
                    slabs |-> r.slabs,
                    walks |-> [k \in 1..Len(r.walks) |->
                                 [reverse |-> r.walks[k].reverse,
                                  check_ok |-> r.walks[k].check_ok,
                                  visited |-> r.walks[k].visited]],
                    visited |-> IF Len(r.walks) = 2
                                THEN r.walks[1].visited \o r.walks[2].visited
                                ELSE r.walks[1].visited]
        /\ UNCHANGED <<ltarget, starget, kmem_cache, slab, sret, kvars,
                       pvars, acvars, zvars, cvars, mvars, fvars, evars, bvars>>

NextWalk == CheckSlabs

SpecWalk == InitWalk /\ [][NextWalk]_vars

(***************************************************************************)
(* Properties of the check of a slab list                                  *)
(***************************************************************************)
CheckSlabsDone == wret.op = "check_slabs"

\* how many lines of the call say that a walk could not be finished
Unrecoverable ==
    Cardinality({ i \in 1..Len(findings) :
                    findings[i].kind = "Unrecoverable error when traversing" })

\* the forward walk of the image's list fails: its links break, or the
\* check of a slab it reaches raises
WalkFails(t, reverse) ==
    LET n == Len(t.slabs)
        fail == IF reverse THEN t.backward ELSE t.forward
        reached == IF fail = -1 THEN n ELSE fail
    IN  \/ fail # -1
        \/ \E j \in 1..reached :
              t.slabs[IF reverse THEN n + 1 - j ELSE j] = "raises"

\* C13: the check of a slab list walks the list forward; when that walk
\* fails it walks the list exactly once more, in reverse, and never a third
\* time; when the forward walk succeeds there is no reverse walk.  Each
\* failed walk is reported by one line, and the call returns (a number) in
\* every case.
C13_RetryOnceInReverse ==
    CheckSlabsDone =>
        /\ Len(wret.walks) \in {1, 2}
        /\ ~wret.walks[1].reverse
        /\ wret.walks[1].check_ok <=> ~WalkFails(ltarget, FALSE)
        /\ (Len(wret.walks) = 2) <=> WalkFails(ltarget, FALSE)
        /\ Len(wret.walks) = 2 =>
              /\ wret.walks[2].reverse
              /\ wret.walks[2].check_ok <=> ~WalkFails(ltarget, TRUE)
        /\ Unrecoverable
              = Cardinality({ k \in 1..Len(wret.walks) :
                                ~wret.walks[k].check_ok })

\* C13 witness: the forward walk broke after one slab, the reverse walk
\* broke too, and both failures are reported
C13_Witness ==
    /\ CheckSlabsDone
    /\ ltarget.forward = 1
    /\ Len(wret.walks) = 2
    /\ ~wret.walks[2].check_ok
    /\ Unrecoverable = 2

\* a sound list of three slabs is walked once
C13_WitnessSound ==
    /\ CheckSlabsDone
    /\ Len(ltarget.slabs) = 3
    /\ Len(wret.walks) = 1
    /\ Len(wret.walks[1].visited) = 3
    /\ Unrecoverable = 0

(***************************************************************************)
(* The summaries of the runs of slabs                                      *)
(***************************************************************************)
\* where the line that announces the reverse walk stands, 0 if nowhere
RetryLine ==
    IF \E i \in 1..Len(findings) :
          findings[i].kind = "Retrying the slab list in reverse order"
    THEN CHOOSE i \in 1..Len(findings) :
          findings[i].kind = "Retrying the slab list in reverse order"
    ELSE 0

\* the lines printed by the k-th walk of the call
WalkLines(k) ==
    IF k = 1
    THEN SubSeq(findings, 2,
                IF RetryLine = 0 THEN Len(findings) ELSE RetryLine - 1)
    ELSE SubSeq(findings, RetryLine + 1, Len(findings))

\* the kind of the slab at an address of the list
KindAt(addr) == ltarget.slabs[CHOOSE i \in 1..Len(ltarget.slabs) :
                                SlabAddr(i) = addr]

\* the maximal runs of slabs of one kind among the slabs a walk has
\* visited, each as <<length, address of its first, address of its last>>
RunsOf(visited, kind) ==
    { <<j - i + 1, visited[i], visited[j]>> :
        <<i, j>> \in { p \in (1..Len(visited)) \X (1..Len(visited)) :
            /\ p[1] <= p[2]
            /\ \A m \in p[1]..p[2] : KindAt(visited[m]) = kind
            /\ p[1] = 1 \/ KindAt(visited[p[1] - 1]) # kind
            /\ p[2] = Len(visited) \/ KindAt(visited[p[2] + 1]) # kind } }

\* the summaries of error-free runs a walk has printed
OkSummaries(lines) ==
    { i \in 1..Len(lines) : lines[i].kind = "slab objects were ok" }

\* the summaries of misplaced runs a walk has printed
MisplacedSummaries(lines) ==
    { i \in 1..Len(lines) : lines[i].kind = "slab objects were misplaced" }

\* one summary per maximal run of the walk, with the length of the run
\* (and its ends, as far as the line tells them)
OneSummaryPerRun(visited, lines) ==
    /\ Cardinality(OkSummaries(lines)) = Cardinality(RunsOf(visited, "ok"))
    /\ { <<lines[i].a, lines[i].b, lines[i].c>> : i \in OkSummaries(lines) }
          = RunsOf(visited, "ok")
    /\ Cardinality(MisplacedSummaries(lines))
          = Cardinality(RunsOf(visited, "misplaced"))
    /\ \A i \in MisplacedSummaries(lines) :
          /\ i < Len(lines)
          /\ lines[i + 1].kind = "print misplaced"
    /\ { <<lines[i].a, lines[i + 1].a>> : i \in MisplacedSummaries(lines) }
          = { <<r[1], r[3]>> : r \in RunsOf(visited, "misplaced") }

\* the slabs that the summaries of a walk count
Counted(lines) ==
    LET S == OkSummaries(lines) \cup MisplacedSummaries(lines)
        f[T \in SUBSET S] ==
            IF T = {} THEN 0
            ELSE LET i == CHOOSE i \in T : TRUE
                 IN  lines[i].a + f[T \ {i}]
    IN  f[S]

\* the slabs of a walk that are error-free or misplaced
InSomeRun(visited) ==
    Cardinality({ m \in 1..Len(visited) :
                    KindAt(visited[m]) \in {"ok", "misplaced"} })

\* C24 as stated: in each walk of one slab list every maximal run of
\* error-free slabs and every maximal run of misplaced slabs yields one
\* summary with the length of the run, and every slab the walk has visited
\* is counted in exactly one run, also when the walk ends early.
C24_EveryVisitedInOneRun ==
    CheckSlabsDone =>
        \A k \in 1..Len(wret.walks) :
            /\ OneSummaryPerRun(wret.walks[k].visited, WalkLines(k))
            /\ Counted(WalkLines(k)) = Len(wret.walks[k].visited)

\* C24, amended: in each walk every maximal run of error-free slabs and
\* every maximal run of misplaced slabs yields one summary with the length
\* of the run, also when the walk ends early; the summaries count every
\* visited slab that is error-free or misplaced once, and no other slab.
C24_OneSummaryPerRun ==
    CheckSlabsDone =>
        \A k \in 1..Len(wret.walks) :
            /\ OneSummaryPerRun(wret.walks[k].visited, WalkLines(k))
            /\ Counted(WalkLines(k)) = InSomeRun(wret.walks[k].visited)

\* C24 witness: two error-free slabs and a misplaced one, then the links
\* break; the forward walk has printed one summary of 2 and one of 1
C24_Witness ==
    /\ CheckSlabsDone
    /\ ltarget.slabs = <<"ok", "ok", "misplaced">>
    /\ ltarget.forward = 3
    /\ ~wret.walks[1].check_ok
    /\ \E i \in OkSummaries(WalkLines(1)) : WalkLines(1)[i].a = 2
    /\ \E i \in MisplacedSummaries(WalkLines(1)) : WalkLines(1)[i].a = 1

\* a slab with an error of its own that is not misplaced stands between
\* two error-free slabs and is counted in no run
C24_SlabInNoRun ==
    /\ CheckSlabsDone
    /\ ltarget.slabs = <<"ok", "bad", "ok">>
    /\ Len(wret.walks[1].visited) = 3
    /\ Counted(WalkLines(1)) = 2

---------------------------------------------------------------------------
(* zone.py: the check of the free pages of one zone                        *)
(*                                                                         *)
(* An area of the image is a buddy free area (one per order) or the        *)
(* pageset of a cpu: its declared counter and one list per migrate type.   *)
(* A list is the sequence of its entries and, for each direction, the      *)
(* number of entries list_for_each_entry (outside this program) yields     *)
(* before it raises CorruptListError or BufferError, -1 if it does not.    *)
(* An entry is a struct page: whether its address is that of a page        *)
(* descriptor, its flags word, whether the state checks find something,    *)
(* and whether they raise on a read.       Z is the state of the check:    *)
(* the lines printed, nr_free of the area at hand, and the exception on    *)
(* its way up ("none", "list" for the two classes of the list walk,        *)
(* "other" for any other).                                                 *)

\* largest number of entries on a list in the images
MaxPages == 2

ZoneFinding(kind, a, b, c, d) ==
    [kind |-> kind, a |-> a, b |-> b, c |-> c, d |-> d]

\* Page.get_nid(): flags >> (BITS_PER_LONG - NODES_WIDTH)
get_nid(t, flags) ==
    flags \div Pow2(t.BITS_PER_LONG - t.NODES_WIDTH)

\* a plausible slip: the shifted word is not masked
get_zid_unmasked(t, flags) ==
    flags \div Pow2(t.BITS_PER_LONG - t.NODES_WIDTH - t.ZONES_WIDTH)

\* Page.get_zid(): flags >> shift & ((1 << ZONES_WIDTH) - 1)
get_zid(t, flags) ==
    BitAnd(flags \div Pow2(t.BITS_PER_LONG - t.NODES_WIDTH - t.ZONES_WIDTH),
           Pow2(t.ZONES_WIDTH) - 1)

\* a plausible slip: only the node is compared
page_on_other_node(t, flags) ==
    get_nid(t, flags) # t.nid

\* Zone._check_free_area, line 149: the page is not of this node and zone
page_misplaced(t, flags) ==
    get_nid(t, flags) # t.nid \/ get_zid(t, flags) # t.zid

\* Zone._check_free_area, lines 133-152: the body of the loop for one entry
check_free_page(Z, t, a, mt, page) ==
    LET Z1 == [Z EXCEPT !.nr_free = @ + 1]
        Z2 == IF page.bad_state
              THEN [Z1 EXCEPT !.out = Append(@,
                      ZoneFinding("had unexpected state", page.address,
                                  0, 0, 10 * a + mt))]
              ELSE Z1
    IN  IF ~page.valid
        THEN [Z EXCEPT !.out = Append(@,
                 ZoneFinding("is not a valid page pointer", page.address,
                             0, 0, 10 * a + mt))]
        ELSE IF page.raises THEN [Z1 EXCEPT !.exc = "other"]
        ELSE IF page_misplaced(t, page.flags)
        THEN [Z2 EXCEPT !.out = Append(@,
                 ZoneFinding("misplaced", page.address,
                             get_nid(t, page.flags), get_zid(t, page.flags),
                             10 * a + mt))]
        ELSE Z2

\* Zone._check_free_area, lines 129-152: one walk of one list, from the
\* j-th entry of the walk
RECURSIVE walk_pages(_, _, _, _, _, _, _)
walk_pages(Z, t, a, mt, list, reverse, j) ==
    LET n == Len(list.entries)
        i == IF reverse THEN n + 1 - j ELSE j
        fail == IF reverse THEN list.backward ELSE list.forward
    IN  IF Z.exc # "none" THEN Z
        ELSE IF fail = j - 1 THEN [Z EXCEPT !.exc = "list"]
        ELSE IF j > n THEN Z
        ELSE walk_pages(check_free_page(Z, t, a, mt, list.entries[i]),
                        t, a, mt, list, reverse, j + 1)

\* Zone._check_free_area, lines 125-160: `for reverse in [False, True]'
\* around the try statement, for one list
check_free_list(Z, t, a, mt, list) ==
    LET traversing == ZoneFinding("Error traversing", 0, 0, 0, 10 * a + mt)
        F == walk_pages(Z, t, a, mt, list, FALSE, 1)
        F1 == [F EXCEPT !.exc = "none",
                        !.out = @ \o << traversing,
                                   ZoneFinding("Retrying list in reverse direction",
                                               0, 0, 0, 10 * a + mt) >>]
        B == walk_pages(F1, t, a, mt, list, TRUE, 1)
    IN  IF F.exc # "list" THEN F
        ELSE IF B.exc # "list" THEN B
        ELSE [B EXCEPT !.exc = "none", !.out = Append(@, traversing)]

\* Zone._check_free_area, lines 123-160: the loop over the migrate types
RECURSIVE check_free_lists(_, _, _, _)
check_free_lists(Z, t, a, mt) ==
    IF Z.exc # "none" \/ mt > Len(t.areas[a].lists) THEN Z
    ELSE check_free_lists(
             check_free_list(Z, t, a, mt, t.areas[a].lists[mt]), t, a, mt + 1)

\* a plausible slip: only a shortfall is reported
nr_free_short(nr_free, nr_expected) == nr_free < nr_expected

\* Zone._check_free_area, line 162: if nr_free != nr_expected
nr_free_mismatch(nr_free, nr_expected) == nr_free # nr_expected

\* Zone._check_free_area(area, is_pcp, order_cpu) for the a-th area
check_free_area(Z, t, a) ==
    LET Z1 == check_free_lists([Z EXCEPT !.nr_free = 0], t, a, 1)
        nr_expected == t.areas[a].declared
    IN  IF Z1.exc # "none" THEN Z1
        ELSE IF nr_free_mismatch(Z1.nr_free, nr_expected)
        THEN [Z1 EXCEPT !.out = Append(@,
                 ZoneFinding("nr_free mismatch", nr_expected, Z1.nr_free,
                             0, a)),
                        !.areas_done = a]
        ELSE [Z1 EXCEPT !.areas_done = a]

\* Zone.check_free_pages(): the free areas by order, then the pagesets by
\* cpu
RECURSIVE check_areas(_, _, _)
check_areas(Z, t, a) ==
    IF Z.exc # "none" \/ a > Len(t.areas) THEN Z
    ELSE check_areas(check_free_area(Z, t, a), t, a + 1)

check_free_pages(t) ==
    check_areas([out |-> << >>, nr_free |-> 0, exc |-> "none",
                 areas_done |-> 0], t, 1)

(***************************************************************************)
(* The zones of the images: node 1, zone 1, with a word of four bits whose *)
(* top bit is the node and whose next bit is the zone, as                  *)
(* setup_nodes_width and setup_zone_type lay them out.  The free area of   *)
(* order 0 has two lists: any list of up to MaxPages entries, broken or    *)
(* not in each direction, and a sound list of one page; its counter is     *)
(* the number of linked entries, one less or one more.  The pageset of     *)
(* cpu 0 has one sound list, of one page or none, and declares one page.   *)
(***************************************************************************)
FreePageAddr(i) == 64 * i

PageEntry(i, valid, flags, bad_state, raises) ==
    [address |-> FreePageAddr(i), valid |-> valid, flags |-> flags,
     bad_state |-> bad_state, raises |-> raises]

PageEntriesAt(i) ==
    { PageEntry(i, TRUE, f, FALSE, FALSE) : f \in {4, 8, 12} }
    \cup { PageEntry(i, TRUE, 12, TRUE, FALSE),
           PageEntry(i, FALSE, 0, FALSE, FALSE),
           PageEntry(i, TRUE, 12, FALSE, TRUE) }

RECURSIVE PageLists(_)
PageLists(n) ==
    IF n = 0 THEN { << >> }
    ELSE { Append(l, p) : l \in PageLists(n - 1), p \in PageEntriesAt(n) }

\* the reverse walk is read only when the forward walk has failed
FreeLists ==
    { x \in { [entries |-> l, forward |-> f, backward |-> b] :
                l \in UNION { PageLists(n) : n \in 0..MaxPages },
                f \in -1..MaxPages, b \in -1..MaxPages } :
        /\ x.forward <= Len(x.entries)
        /\ x.backward <= Len(x.entries)
        /\ (x.forward = -1 => x.backward = -1) }

SoundList(n) ==
    [entries |-> [i \in 1..n |-> PageEntry(10 + i, TRUE, 12, FALSE, FALSE)],
     forward |-> -1, backward |-> -1]

ZoneImages ==
    { [nid |-> 1, zid |-> 1, BITS_PER_LONG |-> 4, NODES_WIDTH |-> 1,
       ZONES_WIDTH |-> 1,
       areas |-> << [is_pcp |-> FALSE, declared |-> Len(l.entries) + c,
                     lists |-> << l, SoundList(1) >>],
                    [is_pcp |-> TRUE, declared |-> 1,
                     lists |-> << SoundList(k) >>] >>] :
        l \in FreeLists, c \in 0..2, k \in 0..1 }

InitZone ==
    /\ ztarget \in ZoneImages
    /\ zret = NoZret
    /\ SlabIdle
    /\ KallsymsIdle
    /\ PageIdle
    /\ ArrayCachesIdle
    /\ WalkIdle
    /\ CatalogIdle
    /\ SectionIdle
    /\ FlagsIdle
    /\ ExpandIdle
    /\ ChainIdle

\* the entries linked on these lists, from the mt-th on
RECURSIVE SumLen(_, _)
SumLen(lists, mt) ==
    IF mt > Len(lists) THEN 0
    ELSE Len(lists[mt].entries) + SumLen(lists, mt + 1)

\* a plausible slip: the check repairs the counters it finds wrong
CheckFreePagesRepairing ==
    \E r \in {check_free_pages(ztarget)} :
        /\ findings' = r.out
        /\ zret' = [op |-> "check_free_pages",
                    kind |-> IF r.exc = "none" THEN "returned" ELSE "raised",
                    areas_done |-> r.areas_done]
        /\ ztarget' = [ztarget EXCEPT !.areas =
                          [a \in DOMAIN ztarget.areas |->
                             [ztarget.areas[a] EXCEPT !.declared =
                                 SumLen(ztarget.areas[a].lists, 1)]]]
        /\ UNCHANGED <<starget, kmem_cache, slab, sret, kvars,
                       pvars, acvars, lvars, cvars, mvars, fvars, evars, bvars>>

\* Zone.check_free_pages()
CheckFreePages ==
    \E r \in {check_free_pages(ztarget)} :
        /\ findings' = r.out
        /\ zret' = [op |-> "check_free_pages",
                    kind |-> IF r.exc = "none" THEN "returned" ELSE "raised",
                    areas_done |-> r.areas_done]
        /\ UNCHANGED <<ztarget, starget, kmem_cache, slab, sret, kvars,
                       pvars, acvars, lvars, cvars, mvars, fvars, evars, bvars>>

NextZone == CheckFreePages

SpecZone == InitZone /\ [][NextZone]_vars

(***************************************************************************)
(* Properties of the check of the free pages of a zone                     *)
(***************************************************************************)
CheckFreePagesDone == zret.op = "check_free_pages"

CheckFreePagesReturned == CheckFreePagesDone /\ zret.kind = "returned"

\* the entries linked on the lists of the a-th area of the image
Linked(a) == SumLen(ztarget.areas[a].lists, 1)

\* the lines of the call that report a wrong count for the a-th area
CountMismatches(a) ==
    { i \in 1..Len(findings) :
        findings[i].kind = "nr_free mismatch" /\ findings[i].d = a }

\* every list of the a-th area can be walked forward, and every entry is a
\* page
AreaIntact(a) ==
    \A mt \in 1..Len(ztarget.areas[a].lists) :
        /\ ztarget.areas[a].lists[mt].forward = -1
        /\ \A i \in 1..Len(ztarget.areas[a].lists[mt].entries) :
             ztarget.areas[a].lists[mt].entries[i].valid

\* C14, as the specification states it: for every free area and every
\* pageset of a zone that check_free_pages has checked, a line reports a
\* count mismatch, with the declared counter and the counted value, exactly
\* when the number of entries linked on its lists differs from the declared
\* counter.
C14_MismatchExactly ==
    CheckFreePagesReturned =>
        \A a \in 1..Len(ztarget.areas) :
            /\ (CountMismatches(a) # {}) <=>
                   (Linked(a) # ztarget.areas[a].declared)
            /\ \A i \in CountMismatches(a) :
                   /\ findings[i].a = ztarget.areas[a].declared
                   /\ findings[i].b = Linked(a)

\* C14, for the areas whose lists are walked without a failure and hold
\* only pages: the line is there exactly when the number of linked entries
\* differs from the declared counter, and it carries both numbers.
C14_MismatchExactlyIntact ==
    CheckFreePagesReturned =>
        \A a \in 1..Len(ztarget.areas) :
            AreaIntact(a) =>
                /\ (CountMismatches(a) # {}) <=>
                       (Linked(a) # ztarget.areas[a].declared)
                /\ \A i \in CountMismatches(a) :
                       /\ findings[i].a = ztarget.areas[a].declared
                       /\ findings[i].b = Linked(a)

\* a list of two pages whose forward walk breaks after both, retried in
\* reverse, against a counter that is right: three linked, five counted
C14_DoubleCounted ==
    /\ CheckFreePagesReturned
    /\ Linked(1) = 3
    /\ ztarget.areas[1].declared = 3
    /\ \E i \in CountMismatches(1) : findings[i].a = 3 /\ findings[i].b = 5

\* an intact area whose counter is wrong, and the line for it
C14_Witness ==
    /\ CheckFreePagesReturned
    /\ AreaIntact(1)
    /\ Linked(1) = 3
    /\ ztarget.areas[1].declared = 2
    /\ \E i \in CountMismatches(1) : findings[i].a = 2 /\ findings[i].b = 3

\* C30: when a list is retried in reverse, each of its entries contributes
\* at most once to the count that is compared with the declared counter:
\* the count that a mismatch line of an area or pageset gives is no larger
\* than the number of entries linked on its lists.
C30_EntryCountedAtMostOnce ==
    CheckFreePagesReturned =>
        \A a \in 1..Len(ztarget.areas) :
            \A i \in CountMismatches(a) : findings[i].b <= Linked(a)

\* a list of one page, walked to its end forward before the walk fails and
\* again in reverse, and a sound list of one page: two pages linked, the
\* counter right, three counted
C30_PageCountedTwice ==
    /\ CheckFreePagesReturned
    /\ Linked(1) = 2
    /\ ztarget.areas[1].declared = 2
    /\ \E i \in CountMismatches(1) : findings[i].b = 3

\* C30 on the slab lists (a state of SpecWalk): the forward walk of a list
\* of two sound slabs fails after both, the list is walked again in
\* reverse, and the number of free objects returned for the list is that
\* of four slabs
C30_SlabCountedTwice ==
    /\ CheckSlabsDone
    /\ ltarget.slabs = <<"ok", "ok">>
    /\ ltarget.forward = 2
    /\ Len(wret.walks) = 2
    /\ wret.free = 4 * NumFree("ok")

\* the positions of the list that the walks of check_free_list reach
VisitedOf(list) ==
    LET n == Len(list.entries)
    IN  IF list.forward = -1 THEN 1..n
        ELSE (1..list.forward)
             \cup { n + 1 - j : j \in 1..(IF list.backward = -1 THEN n
                                          ELSE list.backward) }

\* the lines of the call that report the page at this address as misplaced
MisplacedLines(address) ==
    { i \in 1..Len(findings) :
        findings[i].kind = "misplaced" /\ findings[i].a = address }

\* the pages of the image, with the area and the list they are linked on
LinkedPages ==
    { <<a, mt, i>> \in (1..Len(ztarget.areas)) \X (1..2) \X (1..(MaxPages + 1)) :
        /\ mt <= Len(ztarget.areas[a].lists)
        /\ i <= Len(ztarget.areas[a].lists[mt].entries)
        /\ ztarget.areas[a].lists[mt].entries[i].valid }

PageAt(x) == ztarget.areas[x[1]].lists[x[2]].entries[x[3]]

\* C15: after check_free_pages, a page of a free list or of a pageset list
\* has a line that reports it as misplaced only if the node or the zone
\* that its flags decode to is not the node and zone of the zone scanned,
\* and, when the check returned, every page that a walk has visited and
\* that decodes to another node or zone has such a line, with the decoded
\* node and zone.
C15_MisplacedPageReported ==
    CheckFreePagesDone =>
        \A x \in LinkedPages :
            LET page == PageAt(x)
                differs == \/ get_nid(ztarget, page.flags) # ztarget.nid
                           \/ get_zid(ztarget, page.flags) # ztarget.zid
            IN  /\ (MisplacedLines(page.address) # {}) => differs
                /\ (/\ CheckFreePagesReturned
                    /\ x[3] \in VisitedOf(ztarget.areas[x[1]].lists[x[2]])
                    /\ differs)
                   => \E i \in MisplacedLines(page.address) :
                          /\ findings[i].b = get_nid(ztarget, page.flags)
                          /\ findings[i].c = get_zid(ztarget, page.flags)

\* a page of the right node and the wrong zone, reported, next to a page of
\* this node and zone, not reported
C15_Witness ==
    /\ CheckFreePagesReturned
    /\ \E x \in LinkedPages :
          /\ get_nid(ztarget, PageAt(x).flags) = ztarget.nid
          /\ get_zid(ztarget, PageAt(x).flags) # ztarget.zid
          /\ MisplacedLines(PageAt(x).address) # {}
    /\ \E x \in LinkedPages :
          /\ x[1] = 1 /\ x[2] = 1
          /\ get_nid(ztarget, PageAt(x).flags) = ztarget.nid
          /\ get_zid(ztarget, PageAt(x).flags) = ztarget.zid
          /\ MisplacedLines(PageAt(x).address) = {}

\* C16, for the zone check: a failure to read memory met in one bucket of
\* a zone ends the check of that bucket only; every free area and pageset
\* of the zone is processed and check_free_pages returns.
C16_FailureAbortsBucketOnly ==
    CheckFreePagesDone =>
        /\ zret.kind = "returned"
        /\ zret.areas_done = Len(ztarget.areas)

\* C16, for the failures that the list walk itself raises
\* (CorruptListError, BufferError): those end the bucket only.
C16_ListFailureAbortsBucketOnly ==
    (/\ CheckFreePagesDone
     /\ \A a \in 1..Len(ztarget.areas) :
          \A mt \in 1..Len(ztarget.areas[a].lists) :
             \A i \in VisitedOf(ztarget.areas[a].lists[mt]) :
                ~ztarget.areas[a].lists[mt].entries[i].raises)
    => /\ zret.kind = "returned"
       /\ zret.areas_done = Len(ztarget.areas)

\* a sound list whose only page cannot be checked for a failing read: the
\* call raises, no area is finished
C16_PassAborted ==
    /\ CheckFreePagesDone
    /\ ztarget.areas[1].lists[1].forward = -1
    /\ zret.kind = "raised"
    /\ zret.areas_done = 0

\* C16, on a slab list with sound links: two slabs whose check raises, and
\* a slab between them that no walk has reached
C16_SlabNeverChecked ==
    /\ CheckSlabsDone
    /\ ltarget.forward = -1 /\ ltarget.backward = -1
    /\ ltarget.slabs = <<"raises", "ok", "raises">>
    /\ \A i \in 1..Len(wret.visited) : wret.visited[i] # SlabAddr(2)

---------------------------------------------------------------------------
(* slab.py: the reconstruction of the free set, on slabs of up to          *)
(* MaxEntries objects, so that a free list has entries after a repeated    *)
(* one.  The slabs are those of a cache with its descriptors on the slab,  *)
(* on the partial list; contains_obj is asked for the start of an object,  *)
(* with no array caches in the image.                                      *)

\* largest number of objects of a slab in these images
MaxEntries == 3

FreePageSlabImages ==
    { x \in { SlabImage(TRUE, n, FALSE, inuse, BUFCTL_END, freelist,
                        slab_partial) :
                n \in 1..MaxEntries, inuse \in 0..MaxEntries,
                freelist \in UNION { [0..(k - 1) -> 0..k] : k \in 1..MaxEntries } } :
        /\ x.inuse <= x.objs_per_slab
        /\ DOMAIN x.bufctl = 0..(x.objs_per_slab - 1)
        /\ \A i \in DOMAIN x.bufctl : i < x.inuse => x.bufctl[i] = 0 }

FreeStructSlabImages ==
    { x \in { SlabImage(FALSE, n, FALSE, 0, free, bufctl, slab_partial) :
                n \in 1..MaxEntries,
                free \in 0..MaxEntries \cup {BUFCTL_END},
                bufctl \in UNION { [0..(k - 1) -> 0..k \cup {BUFCTL_END}] :
                                     k \in 1..MaxEntries } } :
        /\ x.free \in 0..x.objs_per_slab \cup {BUFCTL_END}
        /\ DOMAIN x.bufctl = 0..(x.objs_per_slab - 1)
        /\ \A i \in DOMAIN x.bufctl :
              i \notin ChainRead(x.bufctl, x.objs_per_slab, x.free, {})
                  => x.bufctl[i] = BUFCTL_END }

InitFree ==
    /\ starget \in FreePageSlabImages \cup FreeStructSlabImages
    /\ kmem_cache = NewKmemCache(starget)
    /\ slab = NewSlab(starget)
    /\ findings = << >>
    /\ sret = NoSret
    /\ KallsymsIdle
    /\ PageIdle
    /\ ArrayCachesIdle
    /\ WalkIdle
    /\ ZoneIdle
    /\ CatalogIdle
    /\ SectionIdle
    /\ FlagsIdle
    /\ ExpandIdle
    /\ ChainIdle

NextFree ==
    \E i \in 0..(starget.objs_per_slab - 1) :
        ContainsObj(starget.s_mem + i * starget.buffer_size, << >>)

SpecFree == InitFree /\ [][NextFree]_vars

(***************************************************************************)
(* Properties of the reconstruction of the free set                        *)
(***************************************************************************)
\* the address of the object of index idx
ObjAddr(idx) == starget.s_mem + idx * starget.buffer_size

\* the lines that report this address as a duplicate of the free list
DuplicateLines(address) ==
    { i \in 1..Len(findings) :
        findings[i].kind = "duplicated on freelist"
        /\ findings[i].a = address }

\* the positions of the freelist array that hold an index seen at an
\* earlier position
RepeatedEntries ==
    { j \in starget.inuse..(starget.objs_per_slab - 1) :
        /\ starget.bufctl[j] < starget.objs_per_slab
        /\ \E i \in starget.inuse..(j - 1) :
              starget.bufctl[i] = starget.bufctl[j] }

\* the index at which the bufctl chain from f comes back to an index it
\* has passed, -1 when it ends otherwise
RECURSIVE ChainRepeat(_, _, _, _)
ChainRepeat(bufctl, n, f, seen) ==
    IF f = BUFCTL_END \/ f >= n THEN -1
    ELSE IF f \in seen THEN f
    ELSE ChainRepeat(bufctl, n, bufctl[f], seen \cup {f})

\* what C17 says of the state that a reconstruction leaves
FreeSetComplete ==
    /\ sret.kind = "returned"
    /\ starget.page_slab =>
         /\ \A j \in RepeatedEntries :
               DuplicateLines(ObjAddr(starget.bufctl[j])) # {}
         /\ Cardinality({ i \in 1..Len(findings) :
                           findings[i].kind = "duplicated on freelist" })
                = Cardinality(RepeatedEntries)
         /\ slab.free
              = { ObjAddr(starget.bufctl[j]) :
                    j \in { k \in starget.inuse..(starget.objs_per_slab - 1) :
                              starget.bufctl[k] < starget.objs_per_slab } }
    /\ ~starget.page_slab =>
         /\ ChainRepeat(starget.bufctl, starget.objs_per_slab,
                        starget.free, {}) # -1
              => DuplicateLines(ObjAddr(
                     ChainRepeat(starget.bufctl, starget.objs_per_slab,
                                 starget.free, {}))) # {}
         /\ slab.free
              = { ObjAddr(f) :
                    f \in ChainRead(starget.bufctl, starget.objs_per_slab,
                                    starget.free, {}) }

\* C17: a repeated entry of the free list does not end the reconstruction
\* of the free set with entries left out.  A call that reconstructs the
\* set (it finds none, or an empty one) returns its answer, and then: in
\* the array layout each repeated entry is reported by a line of its own
\* and every entry of the array that is an index of the slab, before or
\* after it, is in the free set; in the chain layout the index at which
\* the chain comes back is reported and every index of the chain is in the
\* free set.
C17_DuplicateDoesNotAbort ==
    [][ (/\ ~slab.free_set \/ slab.free = {}
         /\ sret'.op = "contains_obj"
         /\ slab'.free_set)
        => FreeSetComplete' ]_vars

\* the array 0, 0, 1: the second entry is reported, the third is in the set
C17_Witness ==
    /\ sret.op = "contains_obj" /\ slab.free_set
    /\ starget.page_slab
    /\ starget.objs_per_slab = 3 /\ starget.inuse = 0
    /\ starget.bufctl[0] = 0 /\ starget.bufctl[1] = 0 /\ starget.bufctl[2] = 1
    /\ DuplicateLines(ObjAddr(0)) # {}
    /\ ObjAddr(1) \in slab.free

\* the chain 0, 1, 0: index 0 is reported, both indices are in the set
C17_WitnessChain ==
    /\ sret.op = "contains_obj" /\ slab.free_set
    /\ ~starget.page_slab
    /\ starget.objs_per_slab = 3
    /\ starget.free = 0
    /\ starget.bufctl[0] = 1 /\ starget.bufctl[1] = 0
    /\ DuplicateLines(ObjAddr(0)) # {}
    /\ slab.free = {ObjAddr(0), ObjAddr(1)}


\* the lines of a call that come from the walk of the free list
FreeListLines(out) ==
    { i \in 1..Len(out) :
        out[i].kind \in {"free object index overflows",
                         "duplicated on freelist", "bufctl cycle detected"} }

\* C26: the free set of a descriptor is reconstructed at most once: a call
\* made after the reconstruction reuses the set, walks nothing and reports
\* nothing of the free list again, also when the set is empty.
C26_ReconstructedAtMostOnce ==
    [][ (slab.free_set /\ sret'.op = "contains_obj")
        => /\ FreeListLines(findings') = {}
           /\ slab' = slab ]_vars

\* C26 on a descriptor whose reconstructed free set is not empty: the set
\* is reused and nothing is reported of the free list
C26_NonEmptyReused ==
    [][ (slab.free_set /\ slab.free # {} /\ sret'.op = "contains_obj")
        => /\ FreeListLines(findings') = {}
           /\ slab' = slab ]_vars

\* a slab whose one free-list entry is not an index of the slab: the set is
\* reconstructed empty, and the entry reported, by the call at hand
C26_EmptySetReported ==
    /\ sret.op = "contains_obj"
    /\ slab.free_set /\ slab.free = {}
    /\ FreeListLines(findings) # {}


---------------------------------------------------------------------------
(* slab.py: __populate_free step by step.  One step is one pass of the     *)
(* loop over struct page's freelist array or along struct slab's bufctl    *)
(* chain, that is one call of __add_free_obj_by_idx; free_walk.steps       *)
(* counts them (it is not a variable of the program, and a walk that has   *)
(* made MaxEntries + 2 steps is followed no further).                      *)

InitChain ==
    /\ starget \in FreePageSlabImages \cup FreeStructSlabImages
    /\ kmem_cache = NewKmemCache(starget)
    /\ slab = NewSlab(starget)
    /\ findings = << >>
    /\ sret = NoSret
    /\ free_walk = NoFreeWalk
    /\ KallsymsIdle
    /\ PageIdle
    /\ ArrayCachesIdle
    /\ WalkIdle
    /\ ZoneIdle
    /\ CatalogIdle
    /\ SectionIdle
    /\ FlagsIdle
    /\ ExpandIdle

\* __populate_free is entered: `if self.free: return', self.free = set(),
\* and the first index is read
PopulateFreeEnter ==
    /\ free_walk.pc = "idle"
    /\ IF slab.free_set /\ slab.free # {}
       THEN /\ free_walk' = [free_walk EXCEPT !.pc = "done"]
            /\ UNCHANGED slab
       ELSE /\ slab' = [slab EXCEPT !.free_set = TRUE, !.free = {}]
            /\ free_walk' = [pc |-> "loop", f |-> starget.free,
                             i |-> slab.inuse, steps |-> 0]
    /\ UNCHANGED <<starget, kmem_cache, findings, sret, kvars, pvars,
                   acvars, lvars, zvars, cvars, mvars, fvars, evars>>

\* one pass of `for i in range(self.inuse, objs_per_slab)', or its end
FreelistStep ==
    /\ free_walk.pc = "loop"
    /\ starget.page_slab
    /\ free_walk.steps < MaxEntries + 2
    /\ IF free_walk.i >= kmem_cache.objs_per_slab
       THEN /\ free_walk' = [free_walk EXCEPT !.pc = "done"]
            /\ UNCHANGED <<slab, findings>>
       ELSE \E r \in {add_free_obj_by_idx(
                         [slab |-> slab, cache |-> kmem_cache,
                          out |-> findings],
                         starget.bufctl[free_walk.i])} :
              /\ slab' = r.W.slab
              /\ findings' = r.W.out
              /\ free_walk' = [free_walk EXCEPT !.i = @ + 1,
                                                !.steps = @ + 1]
    /\ UNCHANGED <<starget, kmem_cache, sret, kvars, pvars, acvars, lvars,
                   zvars, cvars, mvars, fvars, evars>>

\* one pass of `while f != BUFCTL_END', or its end
BufctlStep ==
    /\ free_walk.pc = "loop"
    /\ ~starget.page_slab
    /\ free_walk.steps < MaxEntries + 2
    /\ IF free_walk.f = BUFCTL_END
       THEN /\ free_walk' = [free_walk EXCEPT !.pc = "done"]
            /\ UNCHANGED <<slab, findings>>
       ELSE \E r \in {add_free_obj_by_idx(
                         [slab |-> slab, cache |-> kmem_cache,
                          out |-> findings], free_walk.f)} :
              IF ~r.ret
              THEN \E W \in {error(r.W, Finding("bufctl cycle detected",
                                                0, 0, 0, 0), FALSE)} :
                     /\ slab' = W.slab
                     /\ findings' = W.out
                     /\ free_walk' = [free_walk EXCEPT !.pc = "done",
                                                       !.steps = @ + 1]
              ELSE /\ slab' = r.W.slab
                   /\ findings' = r.W.out
                   /\ free_walk' = [free_walk EXCEPT
                                      !.f = starget.bufctl[free_walk.f],
                                      !.steps = @ + 1]
    /\ UNCHANGED <<starget, kmem_cache, sret, kvars, pvars, acvars, lvars,
                   zvars, cvars, mvars, fvars, evars>>

NextChain ==
    \/ PopulateFreeEnter
    \/ FreelistStep
    \/ BufctlStep

\* the loop is a sequential program: a step that can be taken is taken
SpecChain == InitChain /\ [][NextChain]_vars /\ WF_vars(NextChain)

(***************************************************************************)
(* Termination of the reconstruction                                       *)
(***************************************************************************)
\* C29: the reconstruction of the free set terminates for every content of
\* the slab: the walk makes at most capacity + 1 steps and then has ended,
\* whether the chain has a cycle, an index out of range or no end marker.
C29_Terminates ==
    /\ [](free_walk.steps <= kmem_cache.objs_per_slab + 1)
    /\ <>(free_walk.pc = "done")

\* C29 witness: a chain of a slab of 3 objects that comes back to its first
\* index with no end marker, ended after 4 steps with the cycle reported
C29_Witness ==
    /\ free_walk.pc = "done"
    /\ ~starget.page_slab
    /\ starget.objs_per_slab = 3
    /\ starget.free = 0
    /\ starget.bufctl[0] = 1 /\ starget.bufctl[1] = 2 /\ starget.bufctl[2] = 0
    /\ free_walk.steps = 4
    /\ \E i \in 1..Len(findings) : findings[i].kind = "bufctl cycle detected"

\* a chain whose first index is out of range ends after one step
C29_WitnessOutOfRange ==
    /\ free_walk.pc = "done"
    /\ ~starget.page_slab
    /\ starget.free = starget.objs_per_slab
    /\ free_walk.steps = 1

\* the step-by-step walk leaves the free set that populate_free computes
C29_SameFreeSet ==
    free_walk.pc = "done" =>
        slab.free = populate_free([slab |-> NewSlab(starget),
                                   cache |-> kmem_cache, out |-> << >>],
                                  starget).slab.free

---------------------------------------------------------------------------
(* slab.py: the catalog of caches                                          *)
(*                                                                         *)
(* The image holds the global list of caches (slab_caches or cache_chain): *)
(* the caches in list order, each with its name and its address, and the   *)
(* number of caches after which the walk of the list or the construction   *)
(* of the next KmemCache raises, -1 if the walk reaches the end.  A        *)
(* dictionary is a function from its keys.  scans counts the walks         *)
(* started; it is not a variable of the program.                           *)

\* largest number of caches on the global list in the images
MaxCaches == 2

\* largest number of walks of the global list that are followed
MaxScans == 3

CacheAddr(i) == 16 * i

\* d[key] = value
DictSet(d, key, value) ==
    [k \in DOMAIN d \cup {key} |-> IF k = key THEN value ELSE d[k]]

\* the loop of __init_kmem_caches from the i-th cache of the list: the
\* catalog, and whether the loop raised
RECURSIVE scan_caches(_, _, _)
scan_caches(C, t, i) ==
    IF t.fail = i - 1 THEN [C |-> C, raised |-> TRUE]
    ELSE IF i > Len(t.caches) THEN [C |-> C, raised |-> FALSE]
    ELSE scan_caches(
             [C EXCEPT !.kmem_caches =
                           DictSet(@, t.caches[i].name, t.caches[i].address),
                       !.kmem_caches_by_addr =
                           DictSet(@, t.caches[i].address,
                                   t.caches[i].address)],
             t, i + 1)

\* a plausible slip: the walk is repeated by every call
scan_always(populated) == TRUE

\* KmemCache.__init_kmem_caches, lines 339-340: the list is walked unless
\* the catalog is populated
scan_due(populated) == ~populated

\* KmemCache.__init_kmem_caches(): the catalog, whether it raised, and the
\* number of walks started
init_kmem_caches(C, t) ==
    IF ~scan_due(C.populated) THEN [C |-> C, raised |-> FALSE, scans |-> 0]
    ELSE LET r == scan_caches(C, t, 1)
         IN  IF r.raised THEN [C |-> r.C, raised |-> TRUE, scans |-> 1]
             ELSE [C |-> [r.C EXCEPT !.populated = TRUE], raised |-> FALSE,
                   scans |-> 1]

\* how a call ends: with the exception of the scan, with a KeyError, or
\* with the value found
Answer(op, arg, r, dict, keyed) ==
    IF r.raised
    THEN [op |-> op, kind |-> "raised", arg |-> arg, value |-> {}]
    ELSE IF keyed /\ arg \notin DOMAIN dict
    THEN [op |-> op, kind |-> "KeyError", arg |-> arg, value |-> {}]
    ELSE [op |-> op, kind |-> "returned", arg |-> arg,
          value |-> IF keyed THEN {dict[arg]}
                    ELSE { dict[k] : k \in DOMAIN dict }]

CatalogImages ==
    { x \in { [caches |-> [i \in 1..n |-> [name |-> i,
                                          address |-> CacheAddr(i)]],
               fail |-> f] : n \in 0..MaxCaches, f \in -1..MaxCaches } :
        x.fail <= Len(x.caches) }

InitCatalog ==
    /\ ctarget \in CatalogImages
    /\ caches_cache = EmptyCatalog
    /\ scans = 0
    /\ cret = NoCret
    /\ SlabIdle
    /\ KallsymsIdle
    /\ PageIdle
    /\ ArrayCachesIdle
    /\ WalkIdle
    /\ ZoneIdle
    /\ SectionIdle
    /\ FlagsIdle
    /\ ExpandIdle
    /\ ChainIdle

\* KmemCache.from_addr(addr)
FromAddr(addr) ==
    /\ scans < MaxScans
    /\ \E r \in { IF addr \notin DOMAIN caches_cache.kmem_caches_by_addr
                  THEN init_kmem_caches(caches_cache, ctarget)
                  ELSE [C |-> caches_cache, raised |-> FALSE, scans |-> 0] } :
          /\ caches_cache' = r.C
          /\ scans' = scans + r.scans
          /\ cret' = Answer("from_addr", addr, r, r.C.kmem_caches_by_addr,
                            TRUE)
    /\ UNCHANGED <<ctarget, svars, kvars, pvars, acvars, lvars, zvars, mvars, fvars, evars, bvars>>

\* KmemCache.from_name(name)
FromName(name) ==
    /\ scans < MaxScans
    /\ \E r \in { init_kmem_caches(caches_cache, ctarget) } :
          /\ caches_cache' = r.C
          /\ scans' = scans + r.scans
          /\ cret' = Answer("from_name", name, r, r.C.kmem_caches, TRUE)
    /\ UNCHANGED <<ctarget, svars, kvars, pvars, acvars, lvars, zvars, mvars, fvars, evars, bvars>>

\* KmemCache.get_all_caches()
GetAllCaches ==
    /\ scans < MaxScans
    /\ \E r \in { init_kmem_caches(caches_cache, ctarget) } :
          /\ caches_cache' = r.C
          /\ scans' = scans + r.scans
          /\ cret' = Answer("get_all_caches", 0, r, r.C.kmem_caches, FALSE)
    /\ UNCHANGED <<ctarget, svars, kvars, pvars, acvars, lvars, zvars, mvars, fvars, evars, bvars>>

\* Slab.from_page(page) for a page whose slab_cache member holds addr: the
\* cache is looked up with KmemCache.from_addr, outside any try, and the
\* Slab is built on what it returns
SlabFromPage(addr) ==
    /\ scans < MaxScans
    /\ \E r \in { IF addr \notin DOMAIN caches_cache.kmem_caches_by_addr
                  THEN init_kmem_caches(caches_cache, ctarget)
                  ELSE [C |-> caches_cache, raised |-> FALSE, scans |-> 0] } :
          /\ caches_cache' = r.C
          /\ scans' = scans + r.scans
          /\ cret' = Answer("from_page", addr, r, r.C.kmem_caches_by_addr,
                            TRUE)
    /\ UNCHANGED <<ctarget, svars, kvars, pvars, acvars, lvars, zvars, mvars, fvars, evars, bvars>>

NextCatalog ==
    \/ \E addr \in { CacheAddr(i) : i \in 1..(MaxCaches + 1) } : FromAddr(addr)
    \/ \E name \in 1..(MaxCaches + 1) : FromName(name)
    \/ GetAllCaches
    \/ \E addr \in { CacheAddr(i) : i \in 1..(MaxCaches + 1) } :
          SlabFromPage(addr)

SpecCatalog == InitCatalog /\ [][NextCatalog]_vars

(***************************************************************************)
(* Properties of the catalog of caches                                     *)
(***************************************************************************)
\* C18, as the specification states it: over any sequence of from_addr,
\* from_name and get_all_caches calls the global list of caches is walked
\* at most once.
C18_ScannedAtMostOnce == scans <= 1

\* C18, for the walks that reach the end of the list: once a walk has
\* built the catalog (populated is set) no call walks the list again, and
\* every call is answered from the two dictionaries, which no longer
\* change; there is at most one such walk, since each one sets populated.
C18_ScannedToTheEndAtMostOnce ==
    [][ caches_cache.populated =>
          /\ scans' = scans
          /\ caches_cache' = caches_cache
          /\ cret'.kind # "raised"
          /\ cret'.op = "get_all_caches" =>
                cret'.value = { caches_cache.kmem_caches[k] :
                                  k \in DOMAIN caches_cache.kmem_caches }
          /\ (cret'.op = "from_name" /\ cret'.kind = "returned") =>
                cret'.value = {caches_cache.kmem_caches[cret'.arg]} ]_vars

\* a second call answered from the catalog that the first call built
C18_Witness ==
    /\ caches_cache.populated
    /\ scans = 1
    /\ Len(ctarget.caches) = 2
    /\ cret.op = "from_addr" /\ cret.kind = "returned"
    /\ cret.value = {CacheAddr(2)}

\* a list whose walk fails: every call walks it again
C18_ScannedAgain ==
    /\ ~caches_cache.populated
    /\ scans = 2
    /\ cret.kind = "raised"

(***************************************************************************)
(* The target image                                                        *)
(***************************************************************************)
\* what the operations read of the target: the symbol tables, the page
\* descriptors and sections, the slab and its free list, the array caches,
\* the slab lists, the free areas and pagesets, the list of caches
image == <<ktarget, ptarget, starget, actarget, ltarget, ztarget, ctarget>>

Catalogued(op) ==
    IF op = "from_name"
    THEN { ctarget.caches[i].name : i \in 1..Len(ctarget.caches) }
    ELSE { ctarget.caches[i].address : i \in 1..Len(ctarget.caches) }

\* C28: a lookup of a cache by an address or a name that the catalog does
\* not hold (from_addr, from_name, Slab.from_page), the list of caches
\* being sound, ends with an outcome the caller receives, not with an
\* exception.
C28_AbsentIsNotRaised ==
    (/\ cret.op \in {"from_addr", "from_name", "from_page"}
     /\ cret.arg \notin Catalogued(cret.op)
     /\ ctarget.fail = -1) =>
        cret.kind = "returned"

\* the list of the image is sound and holds two caches; Slab.from_page for
\* a third address has ended with KeyError
C28_KeyErrorRaised ==
    /\ cret.op = "from_page"
    /\ ctarget.fail = -1 /\ Len(ctarget.caches) = 2
    /\ caches_cache.populated
    /\ cret.arg = CacheAddr(3)
    /\ cret.kind = "KeyError"

\* a lookup of a catalogued cache on a sound list returns the cache
C28_PresentReturned ==
    (/\ cret.op \in {"from_addr", "from_name", "from_page"}
     /\ cret.arg \in Catalogued(cret.op)
     /\ ctarget.fail = -1) =>
        cret.kind = "returned"

---------------------------------------------------------------------------
(* page.py: the memory section of a frame                                  *)
(*                                                                         *)
(* The two type callbacks set the attributes that pfn_to_section reads;    *)
(* they are delivered once each, in either order.  struct mem_section has  *)
(* a size that is a power of two (the kernel refuses to build otherwise).  *)

\* largest index of a root of mem_section in the frames looked up
MaxRoots == 2

\* Python's a >> n for a >= 0
ShiftRight(a, n) == a \div Pow2(n)

\* Page.setup_page_type(gdbtype), lines 80-90, for the attributes of the
\* sections
setup_page_type_sections(P, t) ==
    LET P1 == IF t.arch = "powerpc:common64"
              THEN [P EXCEPT !.PAGE_SHIFT = 16, !.sparsemem_extreme = FALSE,
                             !.SECTION_SIZE_BITS = 24]
              ELSE P
    IN  [P1 EXCEPT !.PAGE_SIZE = Pow2(P1.PAGE_SHIFT),
                   !.setup_page_type_done = TRUE]

\* Page.setup_mem_section(gdbtype)
setup_mem_section(P, t) ==
    [P EXCEPT !.SECTIONS_PER_ROOT =
                  IF P.sparsemem_extreme
                  THEN P.PAGE_SIZE \div t.mem_section_sizeof
                  ELSE 1,
              !.setup_mem_section_done = TRUE]

\* a plausible slip: the mask is the number of sections of a root
section_offset_unmasked(section_nr, per_root) ==
    BitAnd(section_nr, per_root)

\* Page.pfn_to_section, line 113: section_nr & (SECTIONS_PER_ROOT - 1)
section_offset(section_nr, per_root) ==
    BitAnd(section_nr, per_root - 1)

\* Page.pfn_to_section(pfn): the indices of mem_section[root_idx][offset]
pfn_to_section(P, pfn) ==
    LET section_nr == ShiftRight(pfn, P.SECTION_SIZE_BITS - P.PAGE_SHIFT)
    IN  [op |-> "pfn_to_section", pfn |-> pfn, section_nr |-> section_nr,
         root_idx |-> section_nr \div P.SECTIONS_PER_ROOT,
         offset |-> section_offset(section_nr, P.SECTIONS_PER_ROOT)]

SectionTargets ==
    { [arch |-> a, mem_section_sizeof |-> s] :
        a \in {"i386:x86-64", "powerpc:common64"}, s \in {8, 16, 32} }

InitSection ==
    /\ mtarget \in SectionTargets
    /\ Sections = SectionsUnset
    /\ mret = NoMret
    /\ SlabIdle
    /\ KallsymsIdle
    /\ PageIdle
    /\ ArrayCachesIdle
    /\ WalkIdle
    /\ ZoneIdle
    /\ CatalogIdle
    /\ FlagsIdle
    /\ ExpandIdle
    /\ ChainIdle

\* the type callback of struct page
SetupPageTypeSections ==
    /\ ~Sections.setup_page_type_done
    /\ Sections' = setup_page_type_sections(Sections, mtarget)
    /\ UNCHANGED <<mtarget, mret, svars, kvars, pvars, acvars, lvars, zvars,
                   cvars, fvars, evars, bvars>>

\* the type callback of struct mem_section
SetupMemSection ==
    /\ ~Sections.setup_mem_section_done
    /\ Sections' = setup_mem_section(Sections, mtarget)
    /\ UNCHANGED <<mtarget, mret, svars, kvars, pvars, acvars, lvars, zvars,
                   cvars, fvars, evars, bvars>>

\* Page.pfn_to_section(pfn), once both callbacks have been delivered
PfnToSection(pfn) ==
    /\ Sections.setup_page_type_done
    /\ Sections.setup_mem_section_done
    /\ mret' = pfn_to_section(Sections, pfn)
    /\ UNCHANGED <<mtarget, Sections, svars, kvars, pvars, acvars, lvars,
                   zvars, cvars, fvars, evars, bvars>>

\* the frames looked up: the first and the last frame of the first two and
\* of the last section of each root up to MaxRoots
SectionNumbers ==
    { r * Sections.SECTIONS_PER_ROOT + o :
        r \in 0..MaxRoots,
        o \in {0, 1, Sections.SECTIONS_PER_ROOT - 1} }

Pfns ==
    { s * Pow2(Sections.SECTION_SIZE_BITS - Sections.PAGE_SHIFT) + low :
        s \in SectionNumbers,
        low \in {0, Pow2(Sections.SECTION_SIZE_BITS - Sections.PAGE_SHIFT) - 1} }

NextSection ==
    \/ SetupPageTypeSections
    \/ SetupMemSection
    \/ \E pfn \in Pfns : PfnToSection(pfn)

SpecSection == InitSection /\ [][NextSection]_vars

(***************************************************************************)
(* Properties of the section lookup                                        *)
(***************************************************************************)
\* C20: for every frame number and every number of sections per root that
\* setup_mem_section has configured, pfn_to_section takes as section index
\* pfn >> (SECTION_SIZE_BITS - PAGE_SHIFT), as root index the section index
\* div SECTIONS_PER_ROOT, and as offset the section index mod
\* SECTIONS_PER_ROOT.
C20_SectionIndices ==
    mret.op = "pfn_to_section" =>
        /\ mret.section_nr
             = mret.pfn \div Pow2(Sections.SECTION_SIZE_BITS
                                   - Sections.PAGE_SHIFT)
        /\ mret.root_idx = mret.section_nr \div Sections.SECTIONS_PER_ROOT
        /\ mret.offset = mret.section_nr % Sections.SECTIONS_PER_ROOT
        /\ mret.section_nr
             = mret.root_idx * Sections.SECTIONS_PER_ROOT + mret.offset

\* a frame of the second section of the third root, 256 sections per root
C20_Witness ==
    /\ mret.op = "pfn_to_section"
    /\ Sections.SECTIONS_PER_ROOT = 256
    /\ mret.section_nr = 513
    /\ mret.root_idx = 2
    /\ mret.offset = 1

\* one section per root: the root is the section, the offset is 0
C20_WitnessFlat ==
    /\ mret.op = "pfn_to_section"
    /\ Sections.SECTIONS_PER_ROOT = 1
    /\ mret.section_nr = 2
    /\ mret.root_idx = 2
    /\ mret.offset = 0

---------------------------------------------------------------------------
(* page.py: the node and the zone in the flags of a page                   *)
(*                                                                         *)
(* setup_zone_type and setup_nodes_width set the widths, once each, in     *)
(* either order.  The target gives the number of zones of enum zone_type,  *)
(* NODES_SHIFT of its configuration (-1: the configuration does not tell)  *)
(* and the size of unsigned long, here 2 or 3 bytes so that a flags word   *)
(* is a number the checker can hold; the code is the same for every size.  *)

\* largest __MAX_NR_ZONES in the targets
MaxZones == 5

\* int(ceil(log(n, 2))) for n >= 1: the least k with 2^k >= n (the float
\* computation gives that number for every n below 65536)
RECURSIVE ceil_log2(_, _)
ceil_log2(n, k) == IF Pow2(k) >= n THEN k ELSE ceil_log2(n, k + 1)

\* Page.setup_zone_type(gdbtype)
setup_zone_type(P, t) ==
    [P EXCEPT !.ZONES_WIDTH = ceil_log2(t.max_nr_zones, 0),
              !.setup_zone_type_done = TRUE]

\* Page.setup_nodes_width(symbol)
setup_nodes_width(P, t) ==
    [P EXCEPT !.NODES_WIDTH = IF t.NODES_SHIFT = -1 THEN 8
                              ELSE t.NODES_SHIFT,
              !.BITS_PER_LONG = t.unsigned_long_sizeof * 8,
              !.setup_nodes_width_done = TRUE]

FlagsTargets ==
    { [max_nr_zones |-> z, NODES_SHIFT |-> n, unsigned_long_sizeof |-> s] :
        z \in 1..MaxZones, n \in {-1, 0, 1, 2}, s \in {2, 3} }

InitFlags ==
    /\ ftarget \in FlagsTargets
    /\ Flags = FlagsUnset
    /\ fret = NoFret
    /\ SlabIdle
    /\ KallsymsIdle
    /\ PageIdle
    /\ ArrayCachesIdle
    /\ WalkIdle
    /\ ZoneIdle
    /\ CatalogIdle
    /\ SectionIdle
    /\ ExpandIdle
    /\ ChainIdle

\* the type callback of enum zone_type
SetupZoneType ==
    /\ ~Flags.setup_zone_type_done
    /\ Flags' = setup_zone_type(Flags, ftarget)
    /\ UNCHANGED <<ftarget, fret, svars, kvars, pvars, acvars, lvars, zvars,
                   cvars, mvars, evars, bvars>>

\* the symbol callback of kernel_config_data
SetupNodesWidth ==
    /\ ~Flags.setup_nodes_width_done
    /\ Flags' = setup_nodes_width(Flags, ftarget)
    /\ UNCHANGED <<ftarget, fret, svars, kvars, pvars, acvars, lvars, zvars,
                   cvars, mvars, evars, bvars>>

\* page.get_nid() and page.get_zid() of a page with these flags, once both
\* callbacks have been delivered
GetNidZid(flags) ==
    /\ Flags.setup_zone_type_done
    /\ Flags.setup_nodes_width_done
    /\ fret' = [op |-> "get_nid_zid", flags |-> flags,
                nid |-> get_nid(Flags, flags),
                zid |-> get_zid(Flags, flags)]
    /\ UNCHANGED <<ftarget, Flags, svars, kvars, pvars, acvars, lvars, zvars,
                   cvars, mvars, evars, bvars>>

\* the flags word of node nid and zone zid with these lower bits
FlagsWord(P, nid, zid, low) ==
    nid * Pow2(P.BITS_PER_LONG - P.NODES_WIDTH)
    + zid * Pow2(P.BITS_PER_LONG - P.NODES_WIDTH - P.ZONES_WIDTH)
    + low

\* the nodes, zones and lower bits of the words looked at: the first two
\* and the last node, every zone, lower bits all clear, all set, or the
\* lowest and the highest only
NidsOf(P) == {0, 1, Pow2(P.NODES_WIDTH) - 1} \cap 0..(Pow2(P.NODES_WIDTH) - 1)

ZidsOf(P) == 0..(Pow2(P.ZONES_WIDTH) - 1)

LowsOf(P) ==
    LET n == P.BITS_PER_LONG - P.NODES_WIDTH - P.ZONES_WIDTH
    IN  {0, Pow2(n) - 1, Pow2(n - 1) + 1}

FlagsWords ==
    { FlagsWord(Flags, nid, zid, low) :
        nid \in NidsOf(Flags), zid \in ZidsOf(Flags), low \in LowsOf(Flags) }

NextFlags ==
    \/ SetupZoneType
    \/ SetupNodesWidth
    \/ /\ Flags.setup_zone_type_done
       /\ Flags.setup_nodes_width_done
       /\ \E flags \in FlagsWords : GetNidZid(flags)

SpecFlags == InitFlags /\ [][NextFlags]_vars

(***************************************************************************)
(* Properties of the flags decoding                                        *)
(***************************************************************************)
\* C21: ZONES_WIDTH is the least k with 2^k >= the number of zones, and
\* for every flags word below 2^BITS_PER_LONG get_nid returns the value of
\* the top NODES_WIDTH bits and get_zid that of the next ZONES_WIDTH bits:
\* the word built from a node below 2^NODES_WIDTH, a zone below
\* 2^ZONES_WIDTH and any lower bits decodes to that node and that zone.
C21_DecodesNodeAndZone ==
    /\ Flags.setup_zone_type_done =>
          /\ Pow2(Flags.ZONES_WIDTH) >= ftarget.max_nr_zones
          /\ Flags.ZONES_WIDTH > 0 =>
                Pow2(Flags.ZONES_WIDTH - 1) < ftarget.max_nr_zones
    /\ fret.op = "get_nid_zid" =>
          /\ fret.flags < Pow2(Flags.BITS_PER_LONG)
          /\ \A nid \in NidsOf(Flags), zid \in ZidsOf(Flags),
                low \in LowsOf(Flags) :
                fret.flags = FlagsWord(Flags, nid, zid, low)
                    => fret.nid = nid /\ fret.zid = zid

\* node 3 of four, zone 2 of five, every lower bit set
C21_Witness ==
    /\ fret.op = "get_nid_zid"
    /\ Flags.NODES_WIDTH = 2 /\ Flags.ZONES_WIDTH = 3
    /\ ftarget.max_nr_zones = 5
    /\ Flags.BITS_PER_LONG = 16
    /\ fret.flags = 3 * Pow2(14) + 2 * Pow2(11) + (Pow2(11) - 1)
    /\ fret.nid = 3 /\ fret.zid = 2

---------------------------------------------------------------------------
(* kallsyms.py: the decompression of a symbol name                         *)
(*                                                                         *)
(* The image holds kallsyms_names (for each symbol a length byte and that  *)
(* many token bytes), kallsyms_token_index (for each token byte the offset *)
(* of its expansion) and kallsyms_token_table (the expansions, each ended  *)
(* by a 0 byte).  The arrays are sequences here: the byte at offset n of    *)
(* an array is element n + 1 of the sequence.  A character is its code.    *)

\* largest number of token bytes of a compressed name in the images
MaxTokens == 2

\* the loop `while int(tptr.dereference()) != 0' of _expand_symbol from
\* offset tptr of the token table: the new out and skipped_first
RECURSIVE expand_token(_, _, _, _)
expand_token(t, tptr, out, skipped_first) ==
    LET char == t.kallsyms_token_table[tptr + 1] IN
    IF char = 0 THEN [out |-> out, skipped_first |-> skipped_first]
    ELSE IF skipped_first
         THEN expand_token(t, tptr + 1, Append(out, char), TRUE)
         ELSE expand_token(t, tptr + 1, out, TRUE)

\* a plausible slip: the first character of every token is left out
RECURSIVE expand_tokens_each(_, _, _, _, _, _)
expand_tokens_each(t, data, i, length, out, skipped_first) ==
    IF i >= length THEN out
    ELSE LET idx1 == t.kallsyms_names[data + i + 1]
             idx2 == t.kallsyms_token_index[idx1 + 1]
             r == expand_token(t, idx2, out, FALSE)
         IN  expand_tokens_each(t, data, i + 1, length, r.out, FALSE)

\* the loop `for i in range(length)' of _expand_symbol, from token i
RECURSIVE expand_tokens(_, _, _, _, _, _)
expand_tokens(t, data, i, length, out, skipped_first) ==
    IF i >= length THEN out
    ELSE LET idx1 == t.kallsyms_names[data + i + 1]
             idx2 == t.kallsyms_token_index[idx1 + 1]
             r == expand_token(t, idx2, out, skipped_first)
         IN  expand_tokens(t, data, i + 1, length, r.out, r.skipped_first)

\* Kallsyms._expand_symbol(off)
expand_symbol(t, off) ==
    expand_tokens(t, off + 1, 0, t.kallsyms_names[off + 1], << >>, FALSE)

(***************************************************************************)
(* The name tables of the images: two tokens, each expanding to at most    *)
(* two of the characters 'a' and 'b' (an unused token expands to nothing), *)
(* and two compressed names of 1 to MaxTokens token bytes, each name       *)
(* holding a character to decode, as a name begins with its type letter.   *)
(***************************************************************************)
Chars == {97, 98}

Expansions == {<< >>} \cup { <<c>> : c \in Chars }
                \cup { <<c, e>> : c \in Chars, e \in Chars }

TokenBytes == {0, 1}

CompressedNames ==
    UNION { [1..n -> TokenBytes] : n \in 1..MaxTokens }

\* a name as kallsyms_names holds it: its length, then its token bytes
Stored(name) == <<Len(name)>> \o name

ExpandImages ==
    { x \in { [kallsyms_names |-> Stored(n1) \o Stored(n2),
               kallsyms_token_index |-> <<0, Len(e0) + 1>>,
               kallsyms_token_table |-> e0 \o <<0>> \o e1 \o <<0>>,
               expansions |-> <<e0, e1>>, second |-> Len(n1) + 1] :
                n1 \in CompressedNames, n2 \in CompressedNames,
                e0 \in Expansions, e1 \in Expansions } :
        /\ \E i \in 2..x.second :
              x.expansions[x.kallsyms_names[i] + 1] # << >>
        /\ \E i \in (x.second + 2)..Len(x.kallsyms_names) :
              x.expansions[x.kallsyms_names[i] + 1] # << >> }

InitExpand ==
    /\ etarget \in ExpandImages
    /\ eret = NoEret
    /\ KallsymsIdle
    /\ PageIdle
    /\ SlabIdle
    /\ ArrayCachesIdle
    /\ WalkIdle
    /\ ZoneIdle
    /\ CatalogIdle
    /\ SectionIdle
    /\ FlagsIdle
    /\ ChainIdle

\* Kallsyms._expand_symbol(off) for the offset of a name
ExpandSymbol(off) ==
    /\ eret' = [op |-> "expand_symbol", off |-> off,
                out |-> expand_symbol(etarget, off)]
    /\ UNCHANGED <<etarget, kvars, pvars, svars, acvars, lvars, zvars,
                   cvars, mvars, fvars, bvars>>

NextExpand == \E off \in {0, etarget.second} : ExpandSymbol(off)

SpecExpand == InitExpand /\ [][NextExpand]_vars

(***************************************************************************)
(* Properties of the decompression                                         *)
(***************************************************************************)
\* the expansions of the tokens of the name stored at off, one after the
\* other in stored order
RECURSIVE Concatenated(_, _, _)
Concatenated(t, off, i) ==
    IF i > t.kallsyms_names[off + 1] THEN << >>
    ELSE t.expansions[t.kallsyms_names[off + 1 + i] + 1]
           \o Concatenated(t, off, i + 1)

\* C27: the decompressed name is the concatenation of the expansions of
\* its tokens in stored order without its first character: exactly one
\* character is discarded, the first decoded for the whole name, whichever
\* token it comes from.
C27_ConcatenatedLessFirst ==
    eret.op = "expand_symbol" =>
        /\ Concatenated(etarget, eret.off, 1) # << >>
        /\ eret.out = Tail(Concatenated(etarget, eret.off, 1))
        /\ Len(eret.out) = Len(Concatenated(etarget, eret.off, 1)) - 1

\* C27 witness: the second name of the table, two tokens, the first of
\* them expanding to nothing and the second to "ab": the result is "b"
C27_Witness ==
    /\ eret.op = "expand_symbol"
    /\ eret.off = etarget.second /\ eret.off > 0
    /\ etarget.kallsyms_names[eret.off + 1] = 2
    /\ etarget.expansions[etarget.kallsyms_names[eret.off + 2] + 1] = << >>
    /\ etarget.expansions[etarget.kallsyms_names[eret.off + 3] + 1] = <<97, 98>>
    /\ eret.out = <<98>>

\* two tokens of two characters each: three characters are kept
C27_WitnessTwoTokens ==
    /\ eret.op = "expand_symbol"
    /\ etarget.kallsyms_names[eret.off + 1] = 2
    /\ Len(eret.out) = 3

=============================================================================
